---- MODULE Spec2Model ----
(***************************************************************************)
(* Seidel's randomized incremental triangulation of polygonal areas with   *)
(* holes: trapezoidal decomposition with its search structure, inside      *)
(* labelling, monotone mountains and their triangulation.                  *)
(*                                                                         *)
(* Objects are modelled by their identity: a Vertex is its index in verts, *)
(* an Edge its index in edges, a Trapezoid its index in traps and a Node   *)
(* its index in nodes (arenas in creation order).  None is 0.              *)
(* Floating point coordinates are modelled as exact rationals: a point is  *)
(* [xn, xd, yn, yd] with positive denominators.                            *)
(***************************************************************************)
EXTENDS Integers, Naturals, Sequences, FiniteSets, TLC

VARIABLES
    polygons,             \* PolygonalArea.polygons: loops of Vertex ids
    verts,                \* the Vertex objects: id -> <<x, y>>
    edges,                \* the Edge objects of get_edges(): id -> [bottom_vertex, top_vertex]
    pc,                   \* position in triangulate_polygonal_area
    cur,                  \* the edge of the current iteration of trapezoidation's loop
    order,                \* the edges inserted so far, in the shuffled order
    already_inserted,     \* trapezoidation: set of inserted vertices
    top_just_inserted,    \* trapezoidation: result of insert_vertex_if_necessary(edge.top_vertex)
    bottom_just_inserted, \* trapezoidation: result of insert_vertex_if_necessary(edge.bottom_vertex)
    traps,                \* the Trapezoid objects
    nodes,                \* the Node objects; node 1 is search_tree
    traps_by_right_edge,  \* Trapezoid.traps_by_right_edge
    err,                  \* the exception that ended the run, "" if none
    all_trapezoids,       \* triangulate_polygonal_area: search_tree.get_all_traps()
    inside_trapezoids,    \* triangulate_polygonal_area: the inside trapezoids
    monotone_mountains,   \* make_triangles: the mountains, each [base, chain]
    mountain_index,       \* make_triangles: the mountain being triangulated
    angle_threshold,      \* triangulate_monotone_mountain: of the coming call
    triangles,            \* make_triangles: the list the triangles are appended to
    result                \* what triangulate_polygonal_area returned

None == 0

(***************************************************************************)
(* Geometry: Vertex and Edge                                               *)
(***************************************************************************)

\* The point of a Vertex object.
Pt(vs, v) == [xn |-> vs[v][1], xd |-> 1, yn |-> vs[v][2], yd |-> 1]

\* the order on y alone, the tie of two points at the same height not broken
\* by x
GtWithoutTieBreak(p, q) == p.yn * q.yd > q.yn * p.yd

\* Vertex.__gt__ : lexicographic order, y first.
Gt(p, q) ==
    \/ p.yn * q.yd > q.yn * p.yd
    \/ /\ p.yn * q.yd = q.yn * p.yd
       /\ p.xn * q.xd > q.xn * p.xd

\* Edge.__init__ : the two ends ordered by Vertex.__gt__.
NewEdge(vs, start, end) ==
    IF Gt(Pt(vs, start), Pt(vs, end))
    THEN [bottom_vertex |-> end, top_vertex |-> start]
    ELSE [bottom_vertex |-> start, top_vertex |-> end]

\* Edge.get_vertex / Edge.get_edge_vertex (None for no edge).
GetEdgeVertex(es, e, top) ==
    IF e = None THEN None
    ELSE IF top THEN es[e].top_vertex ELSE es[e].bottom_vertex

\* Edge.mid_point.
MidPoint(vs, es, e) ==
    LET b == vs[es[e].bottom_vertex]
        t == vs[es[e].top_vertex]
    IN [xn |-> b[1] + t[1], xd |-> 2, yn |-> b[2] + t[2], yd |-> 2]

\* Edge.get_x_by_y : the x of the edge at height y = yn/yd, as a fraction
\* [n, d] with d > 0; the middle of a horizontal edge.
GetXByY(vs, es, e, yn, yd) ==
    LET bx == vs[es[e].bottom_vertex][1]
        by == vs[es[e].bottom_vertex][2]
        tx == vs[es[e].top_vertex][1]
        ty == vs[es[e].top_vertex][2]
    IN IF by = ty
       THEN [n |-> bx + tx, d |-> 2]
       ELSE [n |-> bx * yd * (ty - by) + (yn - by * yd) * (tx - bx),
             d |-> yd * (ty - by)]

\* Edge.is_vertex_at_the_right.
IsVertexAtTheRight(vs, es, e, p) ==
    LET x_edge == GetXByY(vs, es, e, p.yn, p.yd)
    IN p.xn * x_edge.d > x_edge.n * p.xd

\* the orientation test with its two products exchanged: it tests clockwise
Clockwise(vs, a, b, c) ==
    (vs[c][2] - vs[a][2]) * (vs[b][1] - vs[a][1])
        < (vs[b][2] - vs[a][2]) * (vs[c][1] - vs[a][1])

\* Vertex.counter_clockwise, on Vertex ids.
CounterClockwise(vs, a, b, c) ==
    (vs[c][2] - vs[a][2]) * (vs[b][1] - vs[a][1])
        > (vs[b][2] - vs[a][2]) * (vs[c][1] - vs[a][1])

\* utils.replace
Replace(l, to_replace, replace_by) ==
    [i \in DOMAIN l |-> IF l[i] = to_replace THEN replace_by ELSE l[i]]

(***************************************************************************)
(* The heap of one run: H = [traps, nodes, reg, err].  Every operation     *)
(* below maps a heap to the heap after it; an exception raised by the code *)
(* is recorded in err and ends the run.                                    *)
(***************************************************************************)

Range(l) == {l[i] : i \in DOMAIN l}

Raise(H, name) == [H EXCEPT !.err = name]

\* traps_by_right_edge is a defaultdict(set): reading a key that is missing
\* yields the empty set (and creates the key), writing creates the key.
RegGet(reg, e) == IF e \in DOMAIN reg THEN reg[e] ELSE {}

RegSet(reg, e, s) ==
    [k \in DOMAIN reg \cup {e} |-> IF k = e THEN s ELSE reg[k]]

\* Trapezoid.__register_in_edge_registry
RegisterInEdgeRegistry(H, t) ==
    LET e == H.traps[t].right_edge
    IN IF e = None THEN H
       ELSE [H EXCEPT !.reg = RegSet(@, e, RegGet(@, e) \cup {t})]

\* a trapezoid never removed from the set of its right edge
NeverRemovedFromEdgeRegistry(H, t) == H

\* Trapezoid.remove_from_edge_registry (set.remove raises KeyError)
RemoveFromEdgeRegistry(H, t) ==
    LET e == H.traps[t].right_edge
    IN IF e = None THEN H
       ELSE IF t \notin RegGet(H.reg, e)
       THEN Raise([H EXCEPT !.reg = RegSet(@, e, RegGet(@, e))], "KeyError")
       ELSE [H EXCEPT !.reg = RegSet(@, e, RegGet(@, e) \ {t})]

\* the right_edge setter registering under the new edge without removing the
\* trapezoid from the set of the old one
SetRightEdgeKeepingOldEntry(H, t, new_right_edge) ==
    RegisterInEdgeRegistry([H EXCEPT !.traps[t].right_edge = new_right_edge], t)

\* the registration made before the assignment, under the old edge
RegisteredBeforeWritten(H, t, new_right_edge) ==
    IF H.err # "" THEN H
    ELSE [RegisterInEdgeRegistry(H, t)
             EXCEPT !.traps[t].right_edge = new_right_edge]

\* Trapezoid.right_edge setter, after the removal from the registry: the
\* assignment and the registration under the new edge
WriteRightEdge(H, t, new_right_edge) ==
    IF H.err # "" THEN H
    ELSE RegisterInEdgeRegistry(
            [H EXCEPT !.traps[t].right_edge = new_right_edge], t)

\* Trapezoid.right_edge setter
SetRightEdge(H, t, new_right_edge) ==
    WriteRightEdge(RemoveFromEdgeRegistry(H, t), t, new_right_edge)

\* Trapezoid.__init__ : the new trapezoid is the last of the arena.
NewTrapezoid(H, top_vertex, bottom_vertex, left_edge, right_edge) ==
    LET t == Len(H.traps) + 1
        H1 == [H EXCEPT !.traps = Append(@,
                  [top_vertex |-> top_vertex,
                   bottom_vertex |-> bottom_vertex,
                   trapezoids_above |-> <<>>,
                   trapezoids_below |-> <<>>,
                   left_edge |-> left_edge,
                   right_edge |-> None,
                   associated_node |-> None])]
    IN SetRightEdge(H1, t, right_edge)

\* Trapezoid.__duplicate : same boundaries, no neighbours, no node.
Duplicate(H, t) ==
    NewTrapezoid(H, H.traps[t].top_vertex, H.traps[t].bottom_vertex,
                 H.traps[t].left_edge, H.traps[t].right_edge)

\* Trapezoid.get_adjacent_traps
GetAdjacentTraps(H, t, top) ==
    IF top THEN H.traps[t].trapezoids_above ELSE H.traps[t].trapezoids_below

\* the neighbours stored right to left
SetAdjacentTrapsRightToLeft(H, t, new_traps, top) ==
    IF top
    THEN [H EXCEPT !.traps[t].trapezoids_above = SubSeq(new_traps, 2, Len(new_traps)) \o SubSeq(new_traps, 1, 1)]
    ELSE [H EXCEPT !.traps[t].trapezoids_below = SubSeq(new_traps, 2, Len(new_traps)) \o SubSeq(new_traps, 1, 1)]

\* Trapezoid.set_adjacent_traps
SetAdjacentTraps(H, t, new_traps, top) ==
    IF top THEN [H EXCEPT !.traps[t].trapezoids_above = new_traps]
    ELSE [H EXCEPT !.traps[t].trapezoids_below = new_traps]

\* the lists of the neighbours left as they are
NothingReplacedInAdjacent(H, xs, top, a, b) == H

\* replace(x.get_adjacent_traps(top), a, b) for every x of the list xs, one
\* after the other
RECURSIVE ReplaceInAdjacent(_, _, _, _, _)
ReplaceInAdjacent(H, xs, top, a, b) ==
    IF xs = <<>> THEN H
    ELSE ReplaceInAdjacent(
            IF top
            THEN [H EXCEPT !.traps[Head(xs)].trapezoids_above = Replace(@, a, b)]
            ELSE [H EXCEPT !.traps[Head(xs)].trapezoids_below = Replace(@, a, b)],
            Tail(xs), top, a, b)

\* Trapezoid.split_by_vertex : self becomes the top trapezoid, the new
\* trapezoid (the last of the arena) the bottom one.
SplitByVertex(H, t, vertex) ==
    LET below == H.traps[t].trapezoids_below
        b  == Len(H.traps) + 1
    IN [ReplaceInAdjacent(
           [Duplicate(H, t) EXCEPT !.traps[t].bottom_vertex = vertex,
                                   !.traps[b].top_vertex = vertex,
                                   !.traps[b].trapezoids_above = <<t>>,
                                   !.traps[b].trapezoids_below = below],
           below, TRUE, t, b)
        EXCEPT !.traps[t].trapezoids_below = <<b>>]

\* Trapezoid.split_by_edge : self becomes the right trapezoid, the new
\* trapezoid (the last of the arena) the left one; neighbours untouched.
SplitByEdge(H, t, edge) ==
    [SetRightEdge(Duplicate(H, t), Len(H.traps) + 1, edge)
        EXCEPT !.traps[t].left_edge = edge]

\* the extreme point taken at the other end of the trapezoid
GetExtremePointOfTheOtherEnd(H, t, top, right) ==
    LET relevant_vertex == IF top THEN H.traps[t].bottom_vertex
                           ELSE H.traps[t].top_vertex
        relevant_edge == IF right THEN H.traps[t].right_edge
                         ELSE H.traps[t].left_edge
    IN IF relevant_vertex = None \/ relevant_edge = None
       THEN [ok |-> FALSE, xn |-> 0, xd |-> 1, yn |-> 0, yd |-> 1]
       ELSE LET x == GetXByY(verts, edges, relevant_edge,
                             verts[relevant_vertex][2], 1)
            IN [ok |-> TRUE, xn |-> x.n, xd |-> x.d,
                yn |-> verts[relevant_vertex][2], yd |-> 1]

\* Trapezoid.get_extreme_point : ok is FALSE when the code raises
\* NonExistingExtremePoint.
GetExtremePoint(H, t, top, right) ==
    LET relevant_vertex == IF top THEN H.traps[t].top_vertex
                           ELSE H.traps[t].bottom_vertex
        relevant_edge == IF right THEN H.traps[t].right_edge
                         ELSE H.traps[t].left_edge
    IN IF relevant_vertex = None \/ relevant_edge = None
       THEN [ok |-> FALSE, xn |-> 0, xd |-> 1, yn |-> 0, yd |-> 1]
       ELSE LET x == GetXByY(verts, edges, relevant_edge,
                             verts[relevant_vertex][2], 1)
            IN [ok |-> TRUE, xn |-> x.n, xd |-> x.d,
                yn |-> verts[relevant_vertex][2], yd |-> 1]

(***************************************************************************)
(* Node: the search structure                                              *)
(***************************************************************************)

\* a leaf created without becoming the associated node of its trapezoid
NewNodeNotAssociated(H, trapezoid, parent) ==
    [H EXCEPT !.nodes = Append(@,
               [node_type |-> "TRAPEZOID",
                associated_obj |-> trapezoid,
                left_child |-> None,
                right_child |-> None,
                parents |-> IF parent = None THEN <<>> ELSE <<parent>>])]

\* Node.__init__ : a leaf for the trapezoid, the last of the arena.
NewNode(H, trapezoid, parent) ==
    LET n == Len(H.nodes) + 1
    IN [H EXCEPT !.nodes = Append(@,
               [node_type |-> "TRAPEZOID",
                associated_obj |-> trapezoid,
                left_child |-> None,
                right_child |-> None,
                parents |-> IF parent = None THEN <<>> ELSE <<parent>>]),
            !.traps[trapezoid].associated_node = n]

\* Node.__split_by_vertex
NodeSplitByVertex(H, n, vertex) ==
    IF H.nodes[n].node_type # "TRAPEZOID" THEN Raise(H, "NotATrapezoid")
    ELSE
    LET top_trapezoid == H.nodes[n].associated_obj
        bottom_trapezoid == Len(H.traps) + 1
    IN [NewNode(NewNode(SplitByVertex(H, top_trapezoid, vertex),
                        bottom_trapezoid, n),
                top_trapezoid, n)
        EXCEPT !.nodes[n].node_type = "VERTEX",
               !.nodes[n].associated_obj = vertex,
               !.nodes[n].left_child = Len(H.nodes) + 1,
               !.nodes[n].right_child = Len(H.nodes) + 2]

\* the child chosen at a VERTEX node by the heights alone, the tie of two
\* points at the same height not broken by x
RelevantChildByHeightAlone(H, n, p) ==
    IF \/ /\ H.nodes[n].node_type = "VERTEX"
          /\ GtWithoutTieBreak(p, Pt(verts, H.nodes[n].associated_obj))
       \/ /\ H.nodes[n].node_type = "EDGE"
          /\ IsVertexAtTheRight(verts, edges, H.nodes[n].associated_obj, p)
    THEN H.nodes[n].right_child
    ELSE H.nodes[n].left_child

\* relevant_child in Node.__search_area_containing_vertex, for the point p
\* at the inner node n
RelevantChild(H, n, p) ==
    IF \/ /\ H.nodes[n].node_type = "VERTEX"
          /\ Gt(p, Pt(verts, H.nodes[n].associated_obj))
       \/ /\ H.nodes[n].node_type = "EDGE"
          /\ IsVertexAtTheRight(verts, edges, H.nodes[n].associated_obj, p)
    THEN H.nodes[n].right_child
    ELSE H.nodes[n].left_child

\* Node.__search_area_containing_vertex, for the point p
RECURSIVE SearchAreaContainingVertex(_, _, _)
SearchAreaContainingVertex(H, n, p) ==
    IF H.nodes[n].node_type = "TRAPEZOID" THEN n
    ELSE SearchAreaContainingVertex(H, RelevantChild(H, n, p), p)

\* insert_vertex with its root check inverted: it refuses the root
InsertVertexRefusingTheRoot(H, root, vertex) ==
    IF Len(H.nodes[root].parents) = 0 THEN Raise(H, "NotTheRoot")
    ELSE NodeSplitByVertex(H,
            SearchAreaContainingVertex(H, root, Pt(verts, vertex)), vertex)

\* Node.insert_vertex, called on the node root
InsertVertex(H, root, vertex) ==
    IF Len(H.nodes[root].parents) # 0 THEN Raise(H, "NotTheRoot")
    ELSE NodeSplitByVertex(H,
            SearchAreaContainingVertex(H, root, Pt(verts, vertex)), vertex)

\* the parents of the replaced leaf left pointing at it
NoReplacementInTree(H, self, new_node) == H

\* Node.replace_by_another_node_in_tree
RECURSIVE RedirectParents(_, _, _, _, _)
RedirectParents(N, ps, i, self, new_node) ==
    IF i > Len(ps) THEN N
    ELSE LET parent == ps[i]
             N1 == IF N[parent].left_child = self
                   THEN [N EXCEPT ![parent].left_child = new_node]
                   ELSE IF N[parent].right_child = self
                   THEN [N EXCEPT ![parent].right_child = new_node]
                   ELSE N
         IN RedirectParents(N1, ps, i + 1, self, new_node)

\* the parents redirected without being added to those of the new node
ReplacementForgettingParents(H, self, new_node) ==
    [H EXCEPT !.nodes = RedirectParents(H.nodes, H.nodes[self].parents, 1,
                                        self, new_node)]

ReplaceByAnotherNodeInTree(H, self, new_node) ==
    IF H.nodes[self].node_type # "TRAPEZOID" THEN Raise(H, "NotATrapezoid")
    ELSE IF H.nodes[new_node].node_type # "TRAPEZOID"
    THEN Raise(H, "InconsistentArguments")
    ELSE IF new_node = self THEN H
    ELSE LET N1 == RedirectParents(H.nodes, H.nodes[self].parents, 1,
                                   self, new_node)
         IN [H EXCEPT !.nodes =
                [N1 EXCEPT ![new_node].parents = @ \o H.nodes[self].parents]]

\* Node.__split_by_edge, after the split of the trapezoid: the two leaves
\* and the node turned into an EDGE node
BecomeEdgeNode(H, n, edge, left_trapezoid, right_trapezoid) ==
    IF H.err # "" THEN H
    ELSE [NewNode(NewNode(H, left_trapezoid, n), right_trapezoid, n)
          EXCEPT !.nodes[n].node_type = "EDGE",
                 !.nodes[n].associated_obj = edge,
                 !.nodes[n].left_child = Len(H.nodes) + 1,
                 !.nodes[n].right_child = Len(H.nodes) + 2]

\* Node.__split_by_edge : returns the heap; the couple created is
\* <<Len(traps) of the result, the trapezoid split>>.
NodeSplitByEdge(H, n, edge) ==
    IF H.nodes[n].node_type # "TRAPEZOID" THEN Raise(H, "NotATrapezoid")
    ELSE BecomeEdgeNode(SplitByEdge(H, H.nodes[n].associated_obj, edge),
                        n, edge, Len(H.traps) + 1, H.nodes[n].associated_obj)

RECURSIVE WalkInDirection(_, _, _, _, _)
\* the end of one iteration of the walk: the node of the trapezoid walked
\* to joins the list
WalkTo(H, edge, up_direction, next, nodes_to_split) ==
    IF H.traps[next].associated_node = None
    THEN [list |-> nodes_to_split, err |-> "NonExistingAttribute"]
    ELSE WalkInDirection(H, edge, up_direction, next,
            Append(nodes_to_split, H.traps[next].associated_node))

\* the choice between two adjacent trapezoids, by the side of the edge the
\* extreme point pt of the first is on
WalkAtBranch(H, edge, up_direction, next_traps, pt, nodes_to_split) ==
    IF ~pt.ok
    THEN [list |-> nodes_to_split, err |-> "NonExistingExtremePoint"]
    ELSE IF IsVertexAtTheRight(verts, edges, edge, pt)
    THEN WalkTo(H, edge, up_direction, next_traps[1], nodes_to_split)
    ELSE WalkTo(H, edge, up_direction, next_traps[2], nodes_to_split)

\* Node.__find_nodes_to_split_in_direction : [list, err].  The walk is
\* deterministic, so one that took more steps than there are trapezoids
\* never ends ("NoTermination").
WalkInDirection(H, edge, up_direction, current_trap, nodes_to_split) ==
    LET end_vertex == IF up_direction THEN H.traps[current_trap].top_vertex
                      ELSE H.traps[current_trap].bottom_vertex
        next_traps == GetAdjacentTraps(H, current_trap, up_direction)
    IN IF end_vertex = GetEdgeVertex(edges, edge, up_direction)
       THEN [list |-> nodes_to_split, err |-> ""]
       ELSE IF Len(nodes_to_split) > Len(H.traps)
       THEN [list |-> nodes_to_split, err |-> "NoTermination"]
       ELSE IF Len(next_traps) \notin {1, 2}
       THEN [list |-> nodes_to_split,
             err |-> "InconsistentTrapezoidNeighborhood"]
       ELSE IF Len(next_traps) = 1
       THEN WalkTo(H, edge, up_direction, next_traps[1], nodes_to_split)
       ELSE WalkAtBranch(H, edge, up_direction, next_traps,
               GetExtremePoint(H, next_traps[1], ~up_direction, TRUE),
               nodes_to_split)

FindNodesToSplitInDirection(H, start_node, edge, up_direction) ==
    IF H.nodes[start_node].node_type # "TRAPEZOID"
    THEN [list |-> <<>>, err |-> "NonExistingAttribute"]
    ELSE WalkInDirection(H, edge, up_direction,
                         H.nodes[start_node].associated_obj, <<>>)

\* the list of the upward walk left in the order of the walk
KeptInWalkOrder(l) == l

Reverse(l) == [i \in DOMAIN l |-> l[Len(l) + 1 - i]]

\* the loop of Node.insert_edge over the nodes to split, top to bottom:
\* [heap, couples], a couple being <<left trapezoid, right trapezoid>>
RECURSIVE SplitNodes(_, _, _, _, _)
SplitNodes(H, to_split, i, edge, created_trap_couples) ==
    IF i > Len(to_split) \/ H.err # ""
    THEN [heap |-> H, couples |-> created_trap_couples]
    ELSE SplitNodes(NodeSplitByEdge(H, to_split[i], edge), to_split, i + 1,
            edge,
            Append(created_trap_couples,
                   <<Len(H.traps) + 1, H.nodes[to_split[i]].associated_obj>>))

(***************************************************************************)
(* Neighbours after an edge split, and the merge of redundant trapezoids   *)
(***************************************************************************)

\* Trapezoid.manage_adjacent_trapezoid_at_inserted_edge_end
ManageAdjacentTrapezoidAtInsertedEdgeEnd(H, edge, end_trap_left, end_trap_right, end_just_inserted, top_end) ==
    LET exterior_adjacent_traps == GetAdjacentTraps(H, end_trap_right, top_end)
        edge_relevant_end == GetEdgeVertex(edges, edge, top_end)
    IN
    IF H.err # "" THEN H
    ELSE IF end_just_inserted THEN
        IF Len(exterior_adjacent_traps) # 1
        THEN Raise(H, "InconsistentTrapezoidNeighborhood")
        ELSE LET H1 == SetAdjacentTraps(H, end_trap_left,
                                        exterior_adjacent_traps, top_end)
             IN SetAdjacentTraps(H1, exterior_adjacent_traps[1],
                                 <<end_trap_left, end_trap_right>>, ~top_end)
    ELSE IF GetEdgeVertex(edges, H.traps[end_trap_left].left_edge, top_end)
               = edge_relevant_end THEN
        \* left peak with an old edge
        IF Len(exterior_adjacent_traps) # 1
        THEN Raise(H, "InconsistentTrapezoidNeighborhood")
        ELSE H
    ELSE IF GetEdgeVertex(edges, H.traps[end_trap_right].right_edge, top_end)
               = edge_relevant_end THEN
        \* right peak with an old edge
        IF Len(exterior_adjacent_traps) # 1
        THEN Raise(H, "InconsistentTrapezoidNeighborhood")
        ELSE LET H1 == SetAdjacentTraps(H, end_trap_left,
                                        exterior_adjacent_traps, top_end)
                 H2 == SetAdjacentTraps(H1, end_trap_right, <<>>, top_end)
             IN ReplaceInAdjacent(H2, <<exterior_adjacent_traps[1]>>,
                                  ~top_end, end_trap_right, end_trap_left)
    ELSE
        \* the new edge extends an old edge
        IF Len(exterior_adjacent_traps) # 2
        THEN Raise(H, "InconsistentTrapezoidNeighborhood")
        ELSE LET left_adjacent == exterior_adjacent_traps[1]
                 right_adjacent == exterior_adjacent_traps[2]
                 H1 == SetAdjacentTraps(H, end_trap_left,
                                        <<left_adjacent>>, top_end)
                 H2 == SetAdjacentTraps(H1, end_trap_right,
                                        <<right_adjacent>>, top_end)
             IN ReplaceInAdjacent(H2, <<left_adjacent>>, ~top_end,
                                  end_trap_right, end_trap_left)

\* Trapezoid.manage_adjacent_trapezoids_on_branch
ManageAdjacentTrapezoidsOnBranch(H, edge, left_trap_A, right_trap_A, left_trap_B, right_trap_B, upward_branch) ==
    IF Len(GetAdjacentTraps(H, right_trap_A, ~upward_branch)) # 1
    THEN Raise(H, "InconsistentTrapezoidNeighborhood")
    ELSE
    LET H1 == SetAdjacentTraps(H, left_trap_A, <<left_trap_B>>, ~upward_branch)
        additional_left_trap_A ==
            GetAdjacentTraps(H1, right_trap_B, upward_branch)[1]
        branch_point ==
            GetExtremePoint(H1, additional_left_trap_A, ~upward_branch, TRUE)
    IN IF ~branch_point.ok THEN Raise(H1, "NonExistingExtremePoint")
       ELSE IF IsVertexAtTheRight(verts, edges, edge, branch_point)
       THEN SetAdjacentTraps(H1, left_trap_B, <<left_trap_A>>, upward_branch)
       ELSE
       LET H2 == SetAdjacentTraps(H1, right_trap_A, <<right_trap_B>>,
                                  ~upward_branch)
           H3 == SetAdjacentTraps(H2, right_trap_B, <<right_trap_A>>,
                                  upward_branch)
           H4 == SetAdjacentTraps(H3, left_trap_B,
                    <<additional_left_trap_A, left_trap_A>>, upward_branch)
       IN SetAdjacentTraps(H4, additional_left_trap_A, <<left_trap_B>>,
                           ~upward_branch)

\* the loop of manage_adjacent_trapezoids_after_edge_split over the
\* horizontal borders between the couples
RECURSIVE ManageBorders(_, _, _, _)
ManageBorders(H, edge, couples, i) ==
    IF i > Len(couples) - 1 \/ H.err # "" THEN H
    ELSE
    LET top_left_trap == couples[i][1]
        top_right_trap == couples[i][2]
        bottom_left_trap == couples[i + 1][1]
        bottom_right_trap == couples[i + 1][2]
        H1 ==
          IF Len(H.traps[top_right_trap].trapezoids_below) = 2
          THEN ManageAdjacentTrapezoidsOnBranch(H, edge,
                  bottom_left_trap, bottom_right_trap,
                  top_left_trap, top_right_trap, FALSE)
          ELSE IF Len(H.traps[bottom_right_trap].trapezoids_above) = 2
          THEN ManageAdjacentTrapezoidsOnBranch(H, edge,
                  top_left_trap, top_right_trap,
                  bottom_left_trap, bottom_right_trap, TRUE)
          ELSE IF \/ Len(H.traps[bottom_right_trap].trapezoids_above) # 1
                  \/ Len(H.traps[top_right_trap].trapezoids_below) # 1
          THEN Raise(H, "InconsistentTrapezoidNeighborhood")
          ELSE [H EXCEPT
                  !.traps[top_left_trap].trapezoids_below = <<bottom_left_trap>>,
                  !.traps[bottom_left_trap].trapezoids_above = <<top_left_trap>>]
    IN ManageBorders(H1, edge, couples, i + 1)

\* Trapezoid.manage_adjacent_trapezoids_after_edge_split
ManageAdjacentTrapezoidsAfterEdgeSplit(H, edge, couples, top_just, bottom_just) ==
    ManageBorders(
        ManageAdjacentTrapezoidAtInsertedEdgeEnd(
            ManageAdjacentTrapezoidAtInsertedEdgeEnd(H, edge,
                couples[1][1], couples[1][2], top_just, TRUE),
            edge, couples[Len(couples)][1], couples[Len(couples)][2],
            bottom_just, FALSE),
        edge, couples, 1)

\* the merged trapezoid left in the set of its right edge
StackTrapLeftInRegistry(H, trap) == H

\* trap.remove_from_edge_registry() in the last loop of
\* merge_trapezoids_stack, reached when the replacement of the node raised
\* nothing
RemoveStackTrap(H, trap) ==
    IF H.err # "" THEN H ELSE RemoveFromEdgeRegistry(H, trap)

\* the last loop of merge_trapezoids_stack, over trapezoids_stack[1:]
RECURSIVE ReplaceStackNodes(_, _, _)
ReplaceStackNodes(H, trapezoids_stack, i) ==
    IF i > Len(trapezoids_stack) \/ H.err # "" THEN H
    ELSE
    LET trap == trapezoids_stack[i]
        top_trap == trapezoids_stack[1]
    IN IF H.traps[trap].associated_node = None
          \/ H.traps[top_trap].associated_node = None
       THEN Raise(H, "NonExistingAttribute")
       ELSE ReplaceStackNodes(
               RemoveStackTrap(
                   ReplaceByAnotherNodeInTree(H,
                       H.traps[trap].associated_node,
                       H.traps[top_trap].associated_node),
                   trap),
               trapezoids_stack, i + 1)

\* the trapezoids of the stack left as they are
StackLeftUnmerged(H, trapezoids_stack) == H

\* Trapezoid.merge_trapezoids_stack
MergeTrapezoidsStack(H, trapezoids_stack) ==
    IF Len(trapezoids_stack) < 2 THEN H
    ELSE
    LET top_trap == trapezoids_stack[1]
        bottom_trap == trapezoids_stack[Len(trapezoids_stack)]
        below == H.traps[bottom_trap].trapezoids_below
        H1 == [H EXCEPT
                 !.traps[top_trap].bottom_vertex =
                     H.traps[bottom_trap].bottom_vertex,
                 !.traps[top_trap].trapezoids_below = below]
        H2 == ReplaceInAdjacent(H1, below, TRUE, bottom_trap, top_trap)
    IN ReplaceStackNodes(H2, trapezoids_stack, 2)

\* the stack continued by every trapezoid with the same left edge
ContinuesStackByLeftEdgeAlone(H, last, trap) ==
    H.traps[last].left_edge = H.traps[trap].left_edge

\* the test of merge_redundant_trapezoids that keeps a trapezoid in the
\* stack of the one before it: same left edge and same right edge
ContinuesStack(H, last, trap) ==
    /\ H.traps[last].left_edge = H.traps[trap].left_edge
    /\ H.traps[last].right_edge = H.traps[trap].right_edge

\* the inner loop of merge_redundant_trapezoids for one side of the edge
\* (1 left, 2 right), then the merge of the last stack
RECURSIVE MergeSide(_, _, _, _, _)
MergeSide(H, couples, side, i, stack_to_merge) ==
    IF H.err # "" THEN H
    ELSE IF i > Len(couples) THEN MergeTrapezoidsStack(H, stack_to_merge)
    ELSE
    LET trap == couples[i][side]
        last == stack_to_merge[Len(stack_to_merge)]
    IN IF ~ContinuesStack(H, last, trap)
       THEN MergeSide(MergeTrapezoidsStack(H, stack_to_merge), couples, side,
                      i + 1, <<trap>>)
       ELSE MergeSide(H, couples, side, i + 1, Append(stack_to_merge, trap))


\* the stacks of redundant trapezoids left as they are
NoMergeOfRedundantTrapezoids(H, couples) == H

\* Trapezoid.merge_redundant_trapezoids
MergeRedundantTrapezoids(H, couples) ==
    MergeSide(MergeSide(H, couples, 1, 2, <<couples[1][1]>>),
              couples, 2, 2, <<couples[1][2]>>)

\* Trapezoid.merge_redundant_trapezoids as Node.insert_edge calls it, when
\* the management of the neighbours raised nothing
MergeAfterEdgeSplit(H, couples) ==
    IF H.err # "" THEN H ELSE MergeRedundantTrapezoids(H, couples)

\* Node.insert_edge once the trapezoids of the edge are created: their
\* neighbours, then the merge of the redundant ones
InsertEdgeAfterSplit(edge, top_just, bottom_just, split) ==
    IF split.heap.err # "" THEN split.heap
    ELSE MergeAfterEdgeSplit(
            ManageAdjacentTrapezoidsAfterEdgeSplit(split.heap, edge,
                split.couples, top_just, bottom_just),
            split.couples)

\* Node.insert_edge once the nodes to split are found in the two directions
InsertEdgeThrough(H, edge, top_just, bottom_just, start_node, down, up) ==
    IF down.err # "" THEN Raise(H, down.err)
    ELSE IF up.err # "" THEN Raise(H, up.err)
    ELSE InsertEdgeAfterSplit(edge, top_just, bottom_just,
            SplitNodes(H, Reverse(up.list) \o <<start_node>> \o down.list,
                       1, edge, <<>>))

\* Node.insert_edge from the node of the trapezoid containing the middle of
\* the edge
InsertEdgeFrom(H, edge, top_just, bottom_just, start_node) ==
    InsertEdgeThrough(H, edge, top_just, bottom_just, start_node,
        FindNodesToSplitInDirection(H, start_node, edge, FALSE),
        FindNodesToSplitInDirection(H, start_node, edge, TRUE))

\* Node.insert_edge, called on the node root
InsertEdge(H, root, edge, top_just, bottom_just) ==
    IF Len(H.nodes[root].parents) # 0 THEN Raise(H, "NotTheRoot")
    ELSE InsertEdgeFrom(H, edge, top_just, bottom_just,
            SearchAreaContainingVertex(H, root, MidPoint(verts, edges, edge)))

(***************************************************************************)
(* Angles.  Vertex.angle is acos(a.b / (|a| |b|)) in degrees, which is     *)
(* atan2(|a x b|, a.b); it is computed here in micro-degrees by the CORDIC *)
(* iteration on integers (the result is within a few thousandths of a      *)
(* degree of the exact angle).                                             *)
(***************************************************************************)

AngleUnit == 1000 * 1000

ANGLE_THRESHOLD == 150

ANGLE_EPSILON == AngleUnit \div 10

FlatAngle == 180 * AngleUnit

\* atan(2^-i) in micro-degrees, i = 0, 1, ...
AtanTable == <<45000000, 26565051, 14036243, 7125016, 3576334, 1789911,
               895174, 447614, 223811, 111906, 55953, 27976, 13988, 6994,
               3497, 1749, 874, 437, 219, 109, 55, 27, 14, 7>>

CordicScale == 2 ^ 20

RECURSIVE Cordic(_, _, _, _, _)
Cordic(x, y, angle, i, p) ==
    IF i > Len(AtanTable) THEN angle
    ELSE IF y > 0
    THEN Cordic(x + (y \div p), y - (x \div p), angle + AtanTable[i],
                i + 1, 2 * p)
    ELSE Cordic(x - (y \div p), y + (x \div p), angle - AtanTable[i],
                i + 1, 2 * p)

\* atan2(y, x) in micro-degrees for y >= 0, in 0 .. FlatAngle
Atan2(y, x) ==
    IF y = 0 THEN (IF x < 0 THEN FlatAngle ELSE 0)
    ELSE LET a == IF x < 0
                  THEN Cordic(y * CordicScale, (-x) * CordicScale,
                              90 * AngleUnit, 1, 1)
                  ELSE Cordic(x * CordicScale, y * CordicScale, 0, 1, 1)
         IN IF a < 0 THEN 0 ELSE IF a > FlatAngle THEN FlatAngle ELSE a

Abs(n) == IF n < 0 THEN -n ELSE n

\* Vertex.angle(vertex_1, vertex_2, vertex_3) in micro-degrees; -1 when the
\* division by the norms raises ZeroDivisionError.
Angle(vs, vertex_1, vertex_2, vertex_3) ==
    LET ax == vs[vertex_1][1] - vs[vertex_2][1]
        ay == vs[vertex_1][2] - vs[vertex_2][2]
        bx == vs[vertex_3][1] - vs[vertex_2][1]
        by == vs[vertex_3][2] - vs[vertex_2][2]
    IN IF (ax = 0 /\ ay = 0) \/ (bx = 0 /\ by = 0) THEN -1
       ELSE Atan2(Abs(ax * by - ay * bx), ax * bx + ay * by)

(***************************************************************************)
(* After the trapezoidation: leaves, inside labelling, monotone mountains, *)
(* triangles                                                               *)
(***************************************************************************)

\* Node.get_all_traps : the trapezoids of the leaves, one entry per path
\* from the node to the leaf, left to right.
RECURSIVE GetAllTraps(_, _)
GetAllTraps(N, n) ==
    IF N[n].node_type = "TRAPEZOID" THEN <<N[n].associated_obj>>
    ELSE GetAllTraps(N, N[n].left_child) \o GetAllTraps(N, N[n].right_child)

\* The element next(iter(s)) takes from each registry set is not fixed by
\* the program: a pick function gives, for every key with a non-empty set,
\* the element taken (the sets do not change during the labelling, so the
\* same element is taken each time).
RECURSIVE PickFunctions(_, _)
PickFunctions(reg, keys) ==
    IF keys = {} THEN {<<>>}
    ELSE LET e == CHOOSE k \in keys : TRUE
             rest == PickFunctions(reg, keys \ {e})
         IN IF reg[e] = {} THEN rest
            ELSE {RegSet(f, e, t) : f \in rest, t \in reg[e]}

\* is_inside returning the label of the trapezoid at its left, the negation
\* forgotten
RECURSIVE IsInsideNotNegated(_, _, _, _)
IsInsideNotNegated(T, pick, t, depth) ==
    IF T[t].right_edge = None \/ T[t].left_edge = None THEN "out"
    ELSE IF T[t].left_edge \notin DOMAIN pick THEN "StopIteration"
    ELSE IF depth > Len(T) THEN "RecursionError"
    ELSE IsInsideNotNegated(T, pick, pick[T[t].left_edge], depth + 1)

\* Trapezoid.is_inside : "in", "out", or the exception raised: StopIteration
\* for next() on an empty set, RecursionError for a chain that never ends
\* (longer than the number of trapezoids).
RECURSIVE IsInside(_, _, _, _)
IsInside(T, pick, t, depth) ==
    IF T[t].right_edge = None \/ T[t].left_edge = None THEN "out"
    ELSE IF T[t].left_edge \notin DOMAIN pick THEN "StopIteration"
    ELSE IF depth > Len(T) THEN "RecursionError"
    ELSE LET left_trap == IsInside(T, pick, pick[T[t].left_edge], depth + 1)
         IN IF left_trap = "in" THEN "out"
            ELSE IF left_trap = "out" THEN "in"
            ELSE left_trap

\* select_inside_trapezoids : [list, err]
RECURSIVE SelectInsideTrapezoids(_, _, _, _, _)
SelectInsideTrapezoids(T, pick, all_traps, i, acc) ==
    IF i > Len(all_traps) THEN [list |-> acc, err |-> ""]
    ELSE LET v == IsInside(T, pick, all_traps[i], 0)
         IN IF v \notin {"in", "out"} THEN [list |-> acc, err |-> v]
            ELSE SelectInsideTrapezoids(T, pick, all_traps, i + 1,
                    IF v = "in" THEN Append(acc, all_traps[i]) ELSE acc)

\* the keys is_inside reads, which the defaultdict creates when missing
KeysRead(T, all_traps) ==
    {T[all_traps[i]].left_edge : i \in
        {j \in DOMAIN all_traps : /\ T[all_traps[j]].right_edge # None
                                  /\ T[all_traps[j]].left_edge # None}}

\* a key added to the keys at every assignment, as to a list
DictSetKeepingEveryKey(d, k, v) ==
    [keys |-> Append(d.keys, k),
     val |-> [x \in DOMAIN d.val \cup {k} |-> IF x = k THEN v ELSE d.val[x]]]

\* A dict in insertion order: [keys, val].
DictSet(d, k, v) ==
    [keys |-> IF k \in DOMAIN d.val THEN d.keys ELSE Append(d.keys, k),
     val |-> [x \in DOMAIN d.val \cup {k} |-> IF x = k THEN v ELSE d.val[x]]]

EmptyDict == [keys |-> <<>>, val |-> <<>>]

\* the two side edges of a trapezoid taken as bases without the test
BothSideEdges(T, trap) == <<T[trap].left_edge, T[trap].right_edge>>

\* the mountain bases of a trapezoid, as group_vertices_by_mountain lists
\* them
MountainBases(T, trap) ==
    SelectSeq(<<T[trap].left_edge, T[trap].right_edge>>,
        LAMBDA edge :
            \/ T[trap].bottom_vertex # edges[edge].bottom_vertex
            \/ T[trap].top_vertex # edges[edge].top_vertex)

\* above_vertex_by_base_edge[mountain_base][trap.bottom_vertex] =
\*     trap.top_vertex, for each base of the trapezoid
RECURSIVE RecordBases(_, _, _, _, _)
RecordBases(d, mountain_bases, i, bottom_vertex, top_vertex) ==
    IF i > Len(mountain_bases) THEN d
    ELSE LET base == mountain_bases[i]
             inner == IF base \in DOMAIN d.val THEN d.val[base] ELSE EmptyDict
         IN RecordBases(
               DictSet(d, base, DictSet(inner, bottom_vertex, top_vertex)),
               mountain_bases, i + 1, bottom_vertex, top_vertex)

\* group_vertices_by_mountain : [dict, err]
RECURSIVE GroupVerticesByMountain(_, _, _, _)
GroupVerticesByMountain(T, trapezoids, i, d) ==
    IF i > Len(trapezoids) THEN [dict |-> d, err |-> ""]
    ELSE LET trap == trapezoids[i]
             mountain_bases == MountainBases(T, trap)
         IN IF Len(mountain_bases) = 0
            THEN [dict |-> d, err |-> "InconsistentTrapezoid"]
            ELSE GroupVerticesByMountain(T, trapezoids, i + 1,
                    RecordBases(d, mountain_bases, 1, T[trap].bottom_vertex,
                                T[trap].top_vertex))

\* the chain of MonotoneVertex objects of one base, bottom to top, as the
\* list of their vertices; <<>> when the mapping loops and the while loop
\* of make_monotone_mountains never ends
RECURSIVE Chain(_, _, _)
Chain(above_vertex_mapping, current_vertex, acc) ==
    IF Len(acc) > Len(verts) THEN <<>>
    ELSE LET acc1 == Append(acc, current_vertex)
         IN IF current_vertex \in DOMAIN above_vertex_mapping.val
            THEN Chain(above_vertex_mapping,
                       above_vertex_mapping.val[current_vertex], acc1)
            ELSE acc1

\* the end of make_monotone_mountains: the list of the mountains built, if
\* every chain ended
MountainsBuilt(ms) ==
    IF \E i \in DOMAIN ms : ms[i].chain = <<>>
    THEN [list |-> <<>>, err |-> "NoTermination"]
    ELSE [list |-> ms, err |-> ""]

\* the loop of make_monotone_mountains over the groups g of
\* group_vertices_by_mountain
MountainsOfGroups(g) ==
    IF g.err # "" THEN [list |-> <<>>, err |-> g.err]
    ELSE MountainsBuilt(
            [i \in DOMAIN g.dict.keys |->
                [base |-> g.dict.keys[i],
                 chain |-> Chain(g.dict.val[g.dict.keys[i]],
                                 edges[g.dict.keys[i]].bottom_vertex, <<>>)]])

\* make_monotone_mountains : a mountain is [base, chain]
MakeMonotoneMountains(T, trapezoids) ==
    MountainsOfGroups(GroupVerticesByMountain(T, trapezoids, 1, EmptyDict))

\* a mountain taken as degenerated one vertex too early
IsDegeneratedOffByOne(chain) == Len(chain) < 4

\* MonotoneMountain.is_degenerated
IsDegenerated(chain) == Len(chain) < 3

\* a Triangle constructor that checks nothing
NeverBadVertexOrder(vertices) == FALSE

\* Triangle.__init__ : TRUE when it raises BadVertexOrder
BadVertexOrder(vertices) ==
    ~CounterClockwise(verts, vertices[1], vertices[2], vertices[3])

RemoveAt(l, i) == [j \in 1..(Len(l) - 1) |-> IF j < i THEN l[j] ELSE l[j + 1]]

\* the same loop recovering from BadVertexOrder: the vertex of a triple that
\* is not counter-clockwise is removed and no triangle is added
RECURSIVE ClipEarsSkippingBadTriples(_, _, _, _, _, _)
ClipEarsSkippingBadTriples(chain, i, convex_order, threshold, closer, tris) ==
    IF i = 1 \/ i >= Len(chain)
    THEN [chain |-> chain, triangles |-> tris, closer |-> closer,
          err |-> ""]
    ELSE
    LET below == chain[i - 1]
        current_vertex == chain[i]
        above == chain[i + 1]
        current_vertex_convex ==
            CounterClockwise(verts, below, current_vertex, above) = convex_order
        angle == Angle(verts, below, current_vertex, above)
        vertices_counter_clockwise ==
            IF convex_order THEN <<below, current_vertex, above>>
            ELSE <<below, above, current_vertex>>
    IN IF ~current_vertex_convex
       THEN ClipEarsSkippingBadTriples(chain, i + 1, convex_order, threshold,
                                       closer, tris)
       ELSE IF angle = -1
       THEN [chain |-> chain, triangles |-> tris, closer |-> closer,
             err |-> "ZeroDivisionError"]
       ELSE IF angle > threshold
       THEN ClipEarsSkippingBadTriples(chain, i + 1, convex_order, threshold,
                     IF angle < closer THEN angle ELSE closer, tris)
       ELSE ClipEarsSkippingBadTriples(RemoveAt(chain, i),
                     IF i - 1 = 1 THEN i ELSE i - 1,
                     convex_order, threshold, closer,
                     IF BadVertexOrder(vertices_counter_clockwise) THEN tris
                     ELSE Append(tris, vertices_counter_clockwise))

RECURSIVE ClipEars(_, _, _, _, _, _)
\* one iteration of the while loop of triangulate_monotone_mountain at a
\* convex vertex chain[i], of the given angle
ClipConvexVertex(chain, i, convex_order, threshold, closer, tris, angle) ==
    LET below == chain[i - 1]
        current_vertex == chain[i]
        above == chain[i + 1]
        vertices_counter_clockwise ==
            IF convex_order THEN <<below, current_vertex, above>>
            ELSE <<below, above, current_vertex>>
    IN IF angle = -1
       THEN [chain |-> chain, triangles |-> tris, closer |-> closer,
             err |-> "ZeroDivisionError"]
       ELSE IF angle > threshold
       THEN ClipEars(chain, i + 1, convex_order, threshold,
                     IF angle < closer THEN angle ELSE closer, tris)
       ELSE IF BadVertexOrder(vertices_counter_clockwise)
       THEN [chain |-> chain, triangles |-> tris, closer |-> closer,
             err |-> "BadVertexOrder"]
       ELSE ClipEars(RemoveAt(chain, i),
                     IF i - 1 = 1 THEN i ELSE i - 1,
                     convex_order, threshold, closer,
                     Append(tris, vertices_counter_clockwise))

\* the while loop of triangulate_monotone_mountain, the cursor at chain[i]:
\* [chain, triangles, closer, err]
ClipEars(chain, i, convex_order, threshold, closer, tris) ==
    IF i = 1 \/ i >= Len(chain)
    THEN [chain |-> chain, triangles |-> tris, closer |-> closer,
          err |-> ""]
    ELSE
    LET below == chain[i - 1]
        current_vertex == chain[i]
        above == chain[i + 1]
    IN IF CounterClockwise(verts, below, current_vertex, above) # convex_order
       THEN ClipEars(chain, i + 1, convex_order, threshold, closer,
                     tris)
       ELSE ClipConvexVertex(chain, i, convex_order, threshold, closer, tris,
                             Angle(verts, below, current_vertex, above))

\* one call of triangulate_monotone_mountain, without the call it ends
\* with when the mountain is not degenerated yet
TriangulateCall(mountain, tris, threshold) ==
    IF IsDegenerated(mountain.chain)
    THEN [chain |-> mountain.chain, triangles |-> tris,
          closer |-> FlatAngle, err |-> ""]
    ELSE ClipEars(mountain.chain, 2,
                  CounterClockwise(verts, edges[mountain.base].top_vertex,
                                   edges[mountain.base].bottom_vertex,
                                   mountain.chain[2]),
                  threshold, FlatAngle, tris)

(***************************************************************************)
(* Inputs: the polygonal areas the runs are drawn from.  An area is a      *)
(* list of loops, a loop a list of points <<x, y>>.                        *)
(***************************************************************************)

Areas == <<
    << << <<0, 0>>, <<1, 0>>, <<0, 1>> >> >>,
    << << <<0, 0>>, <<1, 3>>, <<4, 1>> >> >>,
    << << <<0, 0>>, <<1, 0>>, <<1, 1>>, <<0, 1>> >> >>,
    << << <<0, 0>>, <<4, 1>>, <<2, 2>>, <<3, 5>>, <<-1, 3>> >> >>,
    << << <<0, 0>>, <<10, 1>>, <<4, 9>> >>,
       << <<4, 2>>, <<5, 5>>, <<7, 3>> >> >>,
    << << <<0, 0>>, <<1, 0>>, <<0, 1>> >>,
       << <<5, 5>>, <<5, 6>>, <<6, 5>> >> >>,
    << << <<0, 0>>, <<2, 0>>, <<2, 1>>, <<1, 1>>, <<1, 2>>, <<0, 2>> >> >>,
    << << <<0, 0>>, <<2, 2>>, <<2, 0>>, <<0, 2>> >> >>,
    << << <<0, 0>>, <<1, 1>> >> >>,
    << << <<0, 0>>, <<1, 1>>, <<2, 2>> >> >>,
    << << <<0, 0>>, <<2, 0>>, <<0, 0>>, <<1, 2>> >> >>,
    << << <<0, 0>>, <<4, 0>>, <<2, 0>>, <<2, 3>> >> >>,
    << << <<0, 0>>, <<10, 1>>, <<4, 9>> >>,
       << <<4, 2>>, <<7, 3>>, <<5, 5>> >> >>,
    << << <<0, 0>>, <<2, 0>>, <<1, 2>> >>,
       << <<0, 0>>, <<-2, 0>>, <<-1, -2>> >> >>,
    << << <<0, 0>>, <<1, 3>>, <<1, 7>>, <<0, 10>> >> >>
>>

\* the number of areas of the list the runs are drawn from
NumAreas == 12

RECURSIVE Flatten(_)
Flatten(ll) == IF ll = <<>> THEN <<>> ELSE Head(ll) \o Flatten(Tail(ll))

\* the Vertex objects of an area, loop after loop
AreaVertices(area) == Flatten(area)

RECURSIVE LoopIds(_, _)
LoopIds(area, offset) ==
    IF area = <<>> THEN <<>>
    ELSE << [i \in 1..Len(Head(area)) |-> offset + i] >>
         \o LoopIds(Tail(area), offset + Len(Head(area)))

\* PolygonalArea.get_edges
GetEdges(vs, polys) ==
    Flatten([k \in DOMAIN polys |->
        [i \in DOMAIN polys[k] |->
            NewEdge(vs, polys[k][i], polys[k][(i % Len(polys[k])) + 1])]])

(***************************************************************************)
(* The run of triangulate_polygonal_area                                   *)
(***************************************************************************)

vars == <<polygons, verts, edges, pc, cur, order, already_inserted,
          top_just_inserted, bottom_just_inserted, traps, nodes,
          traps_by_right_edge, err, all_trapezoids, inside_trapezoids,
          monotone_mountains, mountain_index, angle_threshold, triangles,
          result>>

\* the variables of the steps after the trapezoidation
post == <<all_trapezoids, inside_trapezoids, monotone_mountains,
          mountain_index, angle_threshold, triangles, result>>

\* the variables of the trapezoidation
trapezoidation == <<cur, order, already_inserted, top_just_inserted,
                    bottom_just_inserted, traps, nodes>>

NotReturned == [returned |-> FALSE, triangles |-> <<>>]

Heap == [traps |-> traps, nodes |-> nodes, reg |-> traps_by_right_edge,
         err |-> ""]

search_tree == 1

\* the heap H becomes the state; an exception ends the run
Continue(H, next_pc) ==
    /\ traps' = H.traps
    /\ nodes' = H.nodes
    /\ traps_by_right_edge' = H.reg
    /\ err' = H.err
    /\ pc' = IF H.err # "" THEN "error" ELSE next_pc

Init ==
    /\ \E a \in 1..NumAreas :
          /\ verts = AreaVertices(Areas[a])
          /\ polygons = LoopIds(Areas[a], 0)
    /\ edges = <<>>
    /\ pc = "start"
    /\ cur = None
    /\ order = <<>>
    /\ already_inserted = {}
    /\ top_just_inserted = FALSE
    /\ bottom_just_inserted = FALSE
    /\ traps = <<>>
    /\ nodes = <<>>
    /\ traps_by_right_edge = <<>>
    /\ err = ""
    /\ all_trapezoids = <<>>
    /\ inside_trapezoids = <<>>
    /\ monotone_mountains = <<>>
    /\ mountain_index = 0
    /\ angle_threshold = 0
    /\ triangles = <<>>
    /\ result = NotReturned

\* trapezoidation, up to its loop: the edges and the search tree, a single
\* leaf for the unbounded trapezoid.  The shuffled order is drawn edge by
\* edge in the loop.
BeginTrapezoidation ==
    /\ pc = "start"
    /\ edges' = GetEdges(verts, polygons)
    /\ LET H0 == [traps |-> <<>>, nodes |-> <<>>,
                  reg |-> traps_by_right_edge, err |-> ""]
           H1 == NewTrapezoid(H0, None, None, None, None)
       IN Continue(NewNode(H1, 1, None), "loop")
    /\ UNCHANGED <<polygons, verts, cur, order, already_inserted,
                   top_just_inserted, bottom_just_inserted, post>>

Remaining == (DOMAIN edges) \ Range(order)

\* the vertex inserted in the tree and not recorded as inserted
NotAddedToInserted(inserted, vertex) == inserted

\* already_inserted.add(vertex) in insert_vertex_if_necessary
AddToInserted(inserted, vertex) == inserted \cup {vertex}

\* insert_vertex_if_necessary(edge.top_vertex) for the next edge of the
\* shuffled list
InsertTopVertex ==
    /\ pc = "loop"
    /\ \E e \in Remaining :
         LET vertex == edges[e].top_vertex
         IN /\ cur' = e
            /\ IF vertex \notin already_inserted
               THEN LET H == InsertVertex(Heap, search_tree, vertex)
                    IN /\ Continue(H, "bottom")
                       /\ already_inserted' =
                            IF H.err = ""
                            THEN AddToInserted(already_inserted, vertex)
                            ELSE already_inserted
                       /\ top_just_inserted' = TRUE
               ELSE /\ Continue(Heap, "bottom")
                    /\ top_just_inserted' = FALSE
                    /\ UNCHANGED already_inserted
    /\ UNCHANGED <<polygons, verts, edges, order, bottom_just_inserted, post>>

\* insert_vertex_if_necessary(edge.bottom_vertex)
InsertBottomVertex ==
    /\ pc = "bottom"
    /\ LET vertex == edges[cur].bottom_vertex
       IN IF vertex \notin already_inserted
          THEN LET H == InsertVertex(Heap, search_tree, vertex)
               IN /\ Continue(H, "edge")
                  /\ already_inserted' =
                       IF H.err = ""
                       THEN AddToInserted(already_inserted, vertex)
                       ELSE already_inserted
                  /\ bottom_just_inserted' = TRUE
          ELSE /\ Continue(Heap, "edge")
               /\ bottom_just_inserted' = FALSE
               /\ UNCHANGED already_inserted
    /\ UNCHANGED <<polygons, verts, edges, cur, order, top_just_inserted,
                   post>>

\* search_tree.insert_edge(edge, top_just_inserted, bottom_just_inserted)
InsertEdgeStep ==
    /\ pc = "edge"
    /\ Continue(InsertEdge(Heap, search_tree, cur, top_just_inserted,
                           bottom_just_inserted), "loop")
    /\ order' = Append(order, cur)
    /\ UNCHANGED <<polygons, verts, edges, cur, already_inserted,
                   top_just_inserted, bottom_just_inserted, post>>

\* an exception raised after the trapezoidation ends the run
Fail(name) ==
    /\ pc' = "error"
    /\ err' = name

\* all_trapezoids = search_tree.get_all_traps(), once every edge is inserted
GetAllTrapsStep ==
    /\ pc = "loop"
    /\ Remaining = {}
    /\ all_trapezoids' = GetAllTraps(nodes, search_tree)
    /\ pc' = "select"
    /\ UNCHANGED <<polygons, verts, edges, trapezoidation,
                   traps_by_right_edge, err, inside_trapezoids,
                   monotone_mountains, mountain_index, angle_threshold,
                   triangles, result>>

\* inside_trapezoids = select_inside_trapezoids(all_trapezoids)
SelectInsideStep ==
    /\ pc = "select"
    /\ \E pick \in PickFunctions(traps_by_right_edge,
                                  DOMAIN traps_by_right_edge) :
         LET r == SelectInsideTrapezoids(traps, pick, all_trapezoids, 1, <<>>)
         IN /\ inside_trapezoids' = r.list
            /\ IF r.err # "" THEN Fail(r.err)
               ELSE pc' = "mountains" /\ err' = err
    /\ traps_by_right_edge' =
         [k \in DOMAIN traps_by_right_edge \cup KeysRead(traps, all_trapezoids)
            |-> RegGet(traps_by_right_edge, k)]
    /\ UNCHANGED <<polygons, verts, edges, trapezoidation, all_trapezoids,
                   monotone_mountains, mountain_index, angle_threshold,
                   triangles, result>>

\* the result r of make_monotone_mountains becomes monotone_mountains, an
\* exception ends the run
EnterMakeTriangles(r) ==
    /\ monotone_mountains' = r.list
    /\ IF r.err # "" THEN Fail(r.err)
       ELSE pc' = "triangles" /\ err' = err

\* monotone_mountains = make_monotone_mountains(inside_trapezoids), and the
\* entry of make_triangles
MakeMonotoneMountainsStep ==
    /\ pc = "mountains"
    /\ EnterMakeTriangles(MakeMonotoneMountains(traps, inside_trapezoids))
    /\ mountain_index' = 1
    /\ angle_threshold' = ANGLE_THRESHOLD * AngleUnit
    /\ triangles' = <<>>
    /\ UNCHANGED <<polygons, verts, edges, trapezoidation,
                   traps_by_right_edge, all_trapezoids, inside_trapezoids,
                   result>>

\* a retry with the threshold of the first call
RetryAtDefaultThreshold(angle_closer_to_threshold) ==
    ANGLE_THRESHOLD * AngleUnit

\* the threshold of the call triangulate_monotone_mountain ends with
RetryThreshold(angle_closer_to_threshold) ==
    angle_closer_to_threshold + ANGLE_EPSILON

\* the end r of a call of triangulate_monotone_mountain on the mountain:
\* the next mountain when this one is degenerated, the same mountain with
\* the threshold adjusted otherwise
AfterTriangulateCall(mountain, r) ==
    /\ triangles' = r.triangles
    /\ monotone_mountains' =
          [monotone_mountains EXCEPT ![mountain_index].chain = r.chain]
    /\ IF r.err # "" THEN
          /\ Fail(r.err)
          /\ UNCHANGED <<mountain_index, angle_threshold>>
       ELSE IF IsDegenerated(r.chain) THEN
          /\ mountain_index' = mountain_index + 1
          /\ angle_threshold' = ANGLE_THRESHOLD * AngleUnit
          /\ UNCHANGED <<pc, err>>
       ELSE IF angle_threshold >= FlatAngle /\ r.chain = mountain.chain
       THEN
          /\ Fail("RecursionError")
          /\ UNCHANGED <<mountain_index, angle_threshold>>
       ELSE
          /\ angle_threshold' = RetryThreshold(r.closer)
          /\ UNCHANGED <<mountain_index, pc, err>>

\* one call of triangulate_monotone_mountain on the current mountain: the
\* first one with ANGLE_THRESHOLD, the next ones (the call the function
\* ends with) with the threshold adjusted.  A call with a threshold of 180
\* degrees or more that clips nothing is followed by the same call for
\* ever: RecursionError.
TriangulateMonotoneMountainStep ==
    /\ pc = "triangles"
    /\ mountain_index <= Len(monotone_mountains)
    /\ AfterTriangulateCall(monotone_mountains[mountain_index],
          TriangulateCall(monotone_mountains[mountain_index], triangles,
                          angle_threshold))
    /\ UNCHANGED <<polygons, verts, edges, trapezoidation,
                   traps_by_right_edge, all_trapezoids, inside_trapezoids,
                   result>>

\* make_triangles returns its list, which triangulate_polygonal_area returns
ReturnTriangles ==
    /\ pc = "triangles"
    /\ mountain_index > Len(monotone_mountains)
    /\ pc' = "done"
    /\ result' = [returned |-> TRUE, triangles |-> triangles]
    /\ UNCHANGED <<polygons, verts, edges, trapezoidation,
                   traps_by_right_edge, err, all_trapezoids,
                   inside_trapezoids, monotone_mountains, mountain_index,
                   angle_threshold, triangles>>

Next ==
    \/ BeginTrapezoidation
    \/ InsertTopVertex
    \/ InsertBottomVertex
    \/ InsertEdgeStep
    \/ GetAllTrapsStep
    \/ SelectInsideStep
    \/ MakeMonotoneMountainsStep
    \/ TriangulateMonotoneMountainStep
    \/ ReturnTriangles

Spec == Init /\ [][Next]_vars

(***************************************************************************)
(* Two runs of triangulate_polygonal_area in one process.  The registry is *)
(* an attribute of the class Trapezoid: what a run left in it is still     *)
(* there when the next run starts.  The objects of the earlier run have    *)
(* identities of their own: they are given the negated ids, the arenas of  *)
(* the new run starting again at 1.                                        *)
(***************************************************************************)

\* the areas of the first of two runs, and those of the second
FirstRunAreas == {1, 9, 10}

SecondRunAreas == {1, 3, 4, 9, 12}

\* the registry with its keys compared by their endpoints instead of their
\* identity: the edges of the earlier run are found again by the new run
KeptWithEdgesEqualByValue(reg) ==
    [k \in DOMAIN reg |-> {-t : t \in reg[k]}]

\* Trapezoid.traps_by_right_edge as the next run finds it: the Edge keys and
\* the Trapezoid members of the earlier run, objects the new run never
\* creates again
KeptByTheClass(reg) ==
    [k \in {-e : e \in DOMAIN reg} |-> {-t : t \in reg[-k]}]

\* the keys the registry holds from an earlier run
EarlierKeys == {k \in DOMAIN traps_by_right_edge : k < 0}

InitFirstRun ==
    /\ Init
    /\ \E a \in FirstRunAreas : verts = AreaVertices(Areas[a])

\* a second call of triangulate_polygonal_area, on a new PolygonalArea, once
\* the first has returned or raised
RunAgain ==
    /\ pc \in {"done", "error"}
    /\ EarlierKeys = {}
    /\ \E b \in SecondRunAreas :
          /\ verts' = AreaVertices(Areas[b])
          /\ polygons' = LoopIds(Areas[b], 0)
    /\ traps_by_right_edge' = KeptByTheClass(traps_by_right_edge)
    /\ edges' = <<>>
    /\ pc' = "start"
    /\ cur' = None
    /\ order' = <<>>
    /\ already_inserted' = {}
    /\ top_just_inserted' = FALSE
    /\ bottom_just_inserted' = FALSE
    /\ traps' = <<>>
    /\ nodes' = <<>>
    /\ err' = ""
    /\ all_trapezoids' = <<>>
    /\ inside_trapezoids' = <<>>
    /\ monotone_mountains' = <<>>
    /\ mountain_index' = 0
    /\ angle_threshold' = 0
    /\ triangles' = <<>>
    /\ result' = NotReturned

NextOfTwoRuns ==
    \/ Next
    \/ RunAgain

SpecTwoRuns == InitFirstRun /\ [][NextOfTwoRuns]_vars

(***************************************************************************)
(* Runs on two loops that have a vertex at the same position, next to runs *)
(* on the unit square                                                      *)
(***************************************************************************)

\* the unit square, and two triangles that meet at (0, 0), each loop with
\* its own Vertex object there
TouchingLoopsAreas == {3, 14}

InitTouchingLoops ==
    /\ \E a \in TouchingLoopsAreas :
          /\ verts = AreaVertices(Areas[a])
          /\ polygons = LoopIds(Areas[a], 0)
    /\ edges = <<>>
    /\ pc = "start"
    /\ cur = None
    /\ order = <<>>
    /\ already_inserted = {}
    /\ top_just_inserted = FALSE
    /\ bottom_just_inserted = FALSE
    /\ traps = <<>>
    /\ nodes = <<>>
    /\ traps_by_right_edge = <<>>
    /\ err = ""
    /\ all_trapezoids = <<>>
    /\ inside_trapezoids = <<>>
    /\ monotone_mountains = <<>>
    /\ mountain_index = 0
    /\ angle_threshold = 0
    /\ triangles = <<>>
    /\ result = NotReturned

SpecTouchingLoops == InitTouchingLoops /\ [][Next]_vars

(***************************************************************************)
(* Runs on a mountain whose angles are all above ANGLE_THRESHOLD, and on   *)
(* the unit square                                                         *)
(***************************************************************************)

\* the unit square, and a quadrilateral of which the two vertices off the
\* base have an angle of more than 160 degrees
FlatMountainAreas == {3, 15}

InitFlatMountains ==
    /\ \E a \in FlatMountainAreas :
          /\ verts = AreaVertices(Areas[a])
          /\ polygons = LoopIds(Areas[a], 0)
    /\ edges = <<>>
    /\ pc = "start"
    /\ cur = None
    /\ order = <<>>
    /\ already_inserted = {}
    /\ top_just_inserted = FALSE
    /\ bottom_just_inserted = FALSE
    /\ traps = <<>>
    /\ nodes = <<>>
    /\ traps_by_right_edge = <<>>
    /\ err = ""
    /\ all_trapezoids = <<>>
    /\ inside_trapezoids = <<>>
    /\ monotone_mountains = <<>>
    /\ mountain_index = 0
    /\ angle_threshold = 0
    /\ triangles = <<>>
    /\ result = NotReturned

SpecFlatMountains == InitFlatMountains /\ [][Next]_vars

(***************************************************************************)
(* The same run as one value: triangulate_polygonal_area for a given       *)
(* shuffled order, the first element of each registry set taken by         *)
(* is_inside.  [triangles, err]                                            *)
(***************************************************************************)

\* the loop of trapezoidation over the shuffled edges, from the i-th one
RECURSIVE TrapezoidationLoop(_, _, _, _)
TrapezoidationLoop(H, inserted, shuffled, i) ==
    IF i > Len(shuffled) \/ H.err # "" THEN H
    ELSE LET edge == shuffled[i]
             top == edges[edge].top_vertex
             bottom == edges[edge].bottom_vertex
             top_just == top \notin inserted
             bottom_just == bottom \notin (inserted \cup {top})
             H1 == IF top_just THEN InsertVertex(H, search_tree, top) ELSE H
             H2 == IF H1.err = "" /\ bottom_just
                   THEN InsertVertex(H1, search_tree, bottom) ELSE H1
             H3 == IF H2.err = ""
                   THEN InsertEdge(H2, search_tree, edge, top_just, bottom_just)
                   ELSE H2
         IN TrapezoidationLoop(H3, inserted \cup {top, bottom}, shuffled, i + 1)

\* trapezoidation, the edges shuffled as given
Trapezoidation(shuffled) ==
    LET H0 == [traps |-> <<>>, nodes |-> <<>>, reg |-> <<>>, err |-> ""]
        H1 == NewTrapezoid(H0, None, None, None, None)
    IN TrapezoidationLoop(NewNode(H1, 1, None), {}, shuffled, 1)

\* triangulate_monotone_mountain with the calls it ends with
RECURSIVE TriangulateMonotoneMountain(_, _, _)
TriangulateMonotoneMountain(mountain, tris, threshold) ==
    LET r == TriangulateCall(mountain, tris, threshold)
    IN IF r.err # "" THEN [triangles |-> r.triangles, err |-> r.err]
       ELSE IF IsDegenerated(r.chain)
       THEN [triangles |-> r.triangles, err |-> ""]
       ELSE IF threshold >= FlatAngle /\ r.chain = mountain.chain
       THEN [triangles |-> r.triangles, err |-> "RecursionError"]
       ELSE TriangulateMonotoneMountain([mountain EXCEPT !.chain = r.chain],
                                        r.triangles, r.closer + ANGLE_EPSILON)

\* make_triangles, from the i-th mountain
RECURSIVE MakeTriangles(_, _, _)
MakeTriangles(mountains, i, tris) ==
    IF i > Len(mountains) THEN [triangles |-> tris, err |-> ""]
    ELSE LET r == TriangulateMonotoneMountain(mountains[i], tris,
                                              ANGLE_THRESHOLD * AngleUnit)
         IN IF r.err # "" THEN r
            ELSE MakeTriangles(mountains, i + 1, r.triangles)

\* next(iter(s)) taking the oldest trapezoid of each set
FirstPick(reg) ==
    [e \in {k \in DOMAIN reg : reg[k] # {}} |->
        CHOOSE t \in reg[e] : \A u \in reg[e] : t <= u]

TriangulatePolygonalArea(shuffled) ==
    LET H == Trapezoidation(shuffled)
        all_traps == GetAllTraps(H.nodes, search_tree)
        inside == SelectInsideTrapezoids(H.traps, FirstPick(H.reg),
                                         all_traps, 1, <<>>)
        mountains == MakeMonotoneMountains(H.traps, inside.list)
    IN IF H.err # "" THEN [triangles |-> <<>>, err |-> H.err]
       ELSE IF inside.err # "" THEN [triangles |-> <<>>, err |-> inside.err]
       ELSE IF mountains.err # ""
       THEN [triangles |-> <<>>, err |-> mountains.err]
       ELSE MakeTriangles(mountains.list, 1, <<>>)

(***************************************************************************)
(* Reference geometry of the statements, on integer points <<x, y>>: the   *)
(* input conditions and the odd-even rule, computed from the input alone.  *)
(***************************************************************************)

\* twice the signed area of the triangle p q r
Cross(p, q, r) ==
    (q[1] - p[1]) * (r[2] - p[2]) - (q[2] - p[2]) * (r[1] - p[1])

Sign(n) == IF n > 0 THEN 1 ELSE IF n < 0 THEN -1 ELSE 0

\* r, on the line p q, lies on the closed segment p q
Between(p, q, r) ==
    /\ (p[1] - r[1]) * (q[1] - r[1]) <= 0
    /\ (p[2] - r[2]) * (q[2] - r[2]) <= 0

OnSegment(p, q, r) == Cross(p, q, r) = 0 /\ Between(p, q, r)

\* the open segments cross at a single point interior to both
ProperCrossing(p1, p2, q1, q2) ==
    /\ Sign(Cross(q1, q2, p1)) * Sign(Cross(q1, q2, p2)) < 0
    /\ Sign(Cross(p1, p2, q1)) * Sign(Cross(p1, p2, q2)) < 0

\* the closed segments have a common point
SegmentsMeet(p1, p2, q1, q2) ==
    \/ ProperCrossing(p1, p2, q1, q2)
    \/ OnSegment(q1, q2, p1) \/ OnSegment(q1, q2, p2)
    \/ OnSegment(p1, p2, q1) \/ OnSegment(p1, p2, q2)

\* the sides of the input loops, as <<loop, index>>, and their two ends
InputSides == {s \in (DOMAIN polygons) \X (DOMAIN verts) :
                  s[2] <= Len(polygons[s[1]])}

SideStart(s) == polygons[s[1]][s[2]]

SideEnd(s) == polygons[s[1]][(s[2] % Len(polygons[s[1]])) + 1]

\* the segments a b and c d between vertices of vs meet only at a vertex
\* they share
SegmentsCompatible(vs, a, b, c, d) ==
    IF {a, b} \cap {c, d} = {}
    THEN ~SegmentsMeet(vs[a], vs[b], vs[c], vs[d])
    ELSE /\ Cardinality({a, b} \cap {c, d}) = 1
         /\ \A v \in {a, b} \ {c, d} : ~OnSegment(vs[c], vs[d], vs[v])
         /\ \A v \in {c, d} \ {a, b} : ~OnSegment(vs[a], vs[b], vs[v])

\* two sides of the input meet only at a vertex they share
SidesCompatible(s, t) ==
    SegmentsCompatible(verts, SideStart(s), SideEnd(s), SideStart(t),
                       SideEnd(t))

\* the sides of the loops polys, as <<loop, index>>
SidesOfLoops(polys) ==
    {s \in (DOMAIN polys) \X (1..Len(Flatten(polys))) :
        s[2] <= Len(polys[s[1]])}

\* the vertices vs and the loops polys are a valid input: loops of at least
\* 3 vertices, all vertices distinct, each loop simple and the loops
\* neither crossing nor touching
ValidArea(vs, polys) ==
    /\ \A k \in DOMAIN polys : Len(polys[k]) >= 3
    /\ \A v, w \in DOMAIN vs : v # w => vs[v] # vs[w]
    /\ \A s, t \in SidesOfLoops(polys) :
          s # t => SegmentsCompatible(vs,
                      polys[s[1]][s[2]],
                      polys[s[1]][(s[2] % Len(polys[s[1]])) + 1],
                      polys[t[1]][t[2]],
                      polys[t[1]][(t[2] % Len(polys[t[1]])) + 1])

\* the areas of the list that are valid inputs
ValidAreas ==
    {a \in DOMAIN Areas :
        ValidArea(AreaVertices(Areas[a]), LoopIds(Areas[a], 0))}

\* valid input: the input of the run, which the run never alters, is one of
\* the valid areas of the list
ValidInput ==
    \E a \in ValidAreas :
        /\ verts = AreaVertices(Areas[a])
        /\ polygons = LoopIds(Areas[a], 0)

\* no three vertices of the input on one line
GeneralPosition ==
    \A a, b, c \in DOMAIN verts :
        (a < b /\ b < c) => Cross(verts[a], verts[b], verts[c]) # 0

\* the horizontal ray from the point p = [xn, xd, yn, yd] to the right
\* crosses the side s (a side counts for its lower end, not its upper end)
RayCrosses(p, s) ==
    LET a == verts[SideStart(s)]
        b == verts[SideEnd(s)]
        dy == b[2] - a[2]
        at == p.xd * (a[1] * p.yd * dy + (p.yn - a[2] * p.yd) * (b[1] - a[1]))
        px == p.xn * p.yd * dy
    IN /\ (a[2] * p.yd > p.yn) # (b[2] * p.yd > p.yn)
       /\ IF dy > 0 THEN at > px ELSE at < px

\* odd-even rule: p is inside an odd number of the loops
OddEvenInside(p) == Cardinality({s \in InputSides : RayCrosses(p, s)}) % 2 = 1

\* the number of loops the vertex v is strictly inside, and twice the area
\* of the loop k
Depth(k) ==
    LET v == verts[polygons[k][1]]
        p == [xn |-> v[1], xd |-> 1, yn |-> v[2], yd |-> 1]
    IN Cardinality({j \in DOMAIN polygons : j # k /\
          Cardinality({s \in InputSides : s[1] = j /\ RayCrosses(p, s)}) % 2 = 1})

RECURSIVE SumOver(_, _)
SumOver(f, S) ==
    IF S = {} THEN 0
    ELSE LET x == CHOOSE y \in S : TRUE IN f[x] + SumOver(f, S \ {x})

LoopArea2(k) ==
    LET a == SumOver([s \in InputSides |->
                 IF s[1] = k
                 THEN verts[SideStart(s)][1] * verts[SideEnd(s)][2]
                      - verts[SideEnd(s)][1] * verts[SideStart(s)][2]
                 ELSE 0], InputSides)
    IN IF a < 0 THEN -a ELSE a

\* twice the area of the polygonal area under the odd-even rule: loops at an
\* even depth add their area, loops at an odd depth (holes) remove it
AreaInside2 ==
    SumOver([k \in DOMAIN polygons |->
        IF Depth(k) % 2 = 0 THEN LoopArea2(k) ELSE -LoopArea2(k)],
        DOMAIN polygons)

\* twice the area of a vertex triple
TriangleArea2(t) ==
    LET a == Cross(verts[t[1]], verts[t[2]], verts[t[3]])
    IN IF a < 0 THEN -a ELSE a

\* a side of the triple t separates it from the triple u: u lies in the
\* closed half plane opposite to t's third vertex
SideSeparates(t, u) ==
    \E i \in 1..3 :
        LET a == verts[t[i]]
            b == verts[t[(i % 3) + 1]]
            c == verts[t[((i + 1) % 3) + 1]]
        IN \A j \in 1..3 :
              Sign(Cross(a, b, c)) * Sign(Cross(a, b, verts[u[j]])) <= 0

\* two non-degenerate triangles have disjoint interiors iff a side of one of
\* them separates them
InteriorsDisjoint(t, u) == SideSeparates(t, u) \/ SideSeparates(u, t)

\* the centroid of the triple t
Centroid(t) ==
    [xn |-> verts[t[1]][1] + verts[t[2]][1] + verts[t[3]][1], xd |-> 3,
     yn |-> verts[t[1]][2] + verts[t[2]][2] + verts[t[3]][2], yd |-> 3]

\* the point q is strictly inside the triple t
StrictlyInside(t, q) ==
    LET s1 == Sign(Cross(verts[t[1]], verts[t[2]], q))
        s2 == Sign(Cross(verts[t[2]], verts[t[3]], q))
        s3 == Sign(Cross(verts[t[3]], verts[t[1]], q))
    IN s1 # 0 /\ s1 = s2 /\ s2 = s3

\* no point of the boundary of the area is in the interior of the triple t:
\* no input vertex inside t or inside one of its sides, no input side
\* crossing one of its sides
FreeOfBoundary(t) ==
    /\ \A v \in DOMAIN verts :
          /\ ~StrictlyInside(t, verts[v])
          /\ \A i \in 1..3 :
                (v # t[i] /\ v # t[(i % 3) + 1]) =>
                    ~OnSegment(verts[t[i]], verts[t[(i % 3) + 1]], verts[v])
    /\ \A s \in InputSides : \A i \in 1..3 :
          ~ProperCrossing(verts[t[i]], verts[t[(i % 3) + 1]],
                          verts[SideStart(s)], verts[SideEnd(s)])

\* the triples tile the area: each one is a triangle inside the area whose
\* interior is free of boundary, no two overlap, and their areas add up to
\* the area inside
Tiling(ts) ==
    /\ \A i \in DOMAIN ts :
          /\ TriangleArea2(ts[i]) > 0
          /\ FreeOfBoundary(ts[i])
          /\ OddEvenInside(Centroid(ts[i]))
    /\ \A i, j \in DOMAIN ts : i < j => InteriorsDisjoint(ts[i], ts[j])
    /\ SumOver([i \in DOMAIN ts |-> TriangleArea2(ts[i])], DOMAIN ts)
          = AreaInside2

(***************************************************************************)
(* Statements                                                              *)
(***************************************************************************)

\* C1: for a valid input with no three collinear vertices and every
\* insertion order, the returned triangles have pairwise disjoint interiors
\* and their union is the interior of the area under the odd-even rule:
\* nothing outside the area or inside a hole is covered, nothing inside is
\* left uncovered.
C1_InteriorCoverage ==
    (pc = "done" /\ ValidInput /\ GeneralPosition) => Tiling(result.triangles)

\* a run on the triangle with a hole returned its triangles
C1_Witness ==
    /\ pc = "done"
    /\ ValidInput /\ GeneralPosition
    /\ Len(polygons) = 2 /\ Depth(2) = 1
    /\ Len(result.triangles) = 6

\* the trapezoid t has its four boundaries and a non-empty interior: it is
\* higher than a line and, at mid-height, wider than a point
MidHeight(t) ==
    [yn |-> verts[traps[t].top_vertex][2] + verts[traps[t].bottom_vertex][2],
     yd |-> 2]

HasInterior(t) ==
    /\ traps[t].top_vertex # None /\ traps[t].bottom_vertex # None
    /\ traps[t].left_edge # None /\ traps[t].right_edge # None
    /\ verts[traps[t].top_vertex][2] > verts[traps[t].bottom_vertex][2]
    /\ LET m == MidHeight(t)
           l == GetXByY(verts, edges, traps[t].left_edge, m.yn, m.yd)
           r == GetXByY(verts, edges, traps[t].right_edge, m.yn, m.yd)
       IN l.n * r.d < r.n * l.d

\* a point in the interior of such a trapezoid: at mid-height, half way
\* between its two edges
InteriorPoint(t) ==
    LET m == MidHeight(t)
        l == GetXByY(verts, edges, traps[t].left_edge, m.yn, m.yd)
        r == GetXByY(verts, edges, traps[t].right_edge, m.yn, m.yd)
    IN [xn |-> l.n * r.d + r.n * l.d, xd |-> 2 * l.d * r.d,
        yn |-> m.yn, yd |-> m.yd]

\* C2: after the trapezoidation of a valid input, a leaf trapezoid is
\* labelled inside if and only if its interior points are inside an odd
\* number of the loops, whatever the winding of the loops; a trapezoid with
\* a missing left or right edge is labelled outside.
C2_InsideIsOddEven ==
    (pc = "mountains" /\ ValidInput) =>
        \A t \in Range(all_trapezoids) :
            LET is_inside == t \in Range(inside_trapezoids)
            IN /\ (traps[t].left_edge = None \/ traps[t].right_edge = None)
                    => ~is_inside
               /\ HasInterior(t) => (is_inside <=> OddEvenInside(InteriorPoint(t)))

\* the trapezoids of the triangle with a hole are labelled: some are inside
\* the outer loop and outside the hole, one at least is inside the hole,
\* and some have a missing side
C2_Witness ==
    /\ pc = "mountains"
    /\ ValidInput
    /\ Len(polygons) = 2 /\ Depth(2) = 1
    /\ \E t \in Range(all_trapezoids) :
          HasInterior(t) /\ t \in Range(inside_trapezoids)
    /\ \E t \in Range(all_trapezoids) :
          /\ HasInterior(t) /\ t \notin Range(inside_trapezoids)
          /\ Cardinality({s \in InputSides : RayCrosses(InteriorPoint(t), s)}) = 2
    /\ \E t \in Range(all_trapezoids) : traps[t].left_edge = None

\* the triple t is strictly counter-clockwise
StrictlyCCW(t) == Cross(verts[t[1]], verts[t[2]], verts[t[3]]) > 0

\* C3: every triangle of the returned list has its three vertices in
\* strictly counter-clockwise order (Vertex.counter_clockwise is true of
\* them), for every input and every insertion order for which the function
\* returns.
C3_CounterClockwise ==
    result.returned =>
        \A i \in DOMAIN result.triangles :
            /\ StrictlyCCW(result.triangles[i])
            /\ CounterClockwise(verts, result.triangles[i][1],
                                result.triangles[i][2], result.triangles[i][3])

\* a loop given clockwise
ClockwiseLoop(k) ==
    SumOver([s \in InputSides |->
        IF s[1] = k
        THEN verts[SideStart(s)][1] * verts[SideEnd(s)][2]
             - verts[SideEnd(s)][1] * verts[SideStart(s)][2]
        ELSE 0], InputSides) < 0

\* the function returned the triangles of a loop given clockwise
C3_Witness ==
    /\ result.returned
    /\ Len(result.triangles) >= 1
    /\ \E k \in DOMAIN polygons : ClockwiseLoop(k)

StructuralErrors ==
    {"InconsistentTrapezoidNeighborhood", "InconsistentTrapezoid",
     "NonExistingExtremePoint", "NonExistingAttribute", "NotATrapezoid"}

\* C4: for a valid input, horizontal edges and several vertices at the same
\* y included, and every insertion order, no step of the trapezoidation or
\* of the mountain extraction raises a structural-inconsistency error or
\* divides by zero.
C4_NoStructuralError ==
    ValidInput => err \notin (StructuralErrors \cup {"ZeroDivisionError"})

\* the input has horizontal sides at two heights at least: several vertices
\* at the same y, more than once
HorizontalInput ==
    \E s, t \in InputSides :
        /\ verts[SideStart(s)][2] = verts[SideEnd(s)][2]
        /\ verts[SideStart(t)][2] = verts[SideEnd(t)][2]
        /\ verts[SideStart(s)][2] # verts[SideStart(t)][2]

\* the mountains of such an input were extracted
C4_Witness ==
    /\ ValidInput /\ HorizontalInput
    /\ pc = "triangles"
    /\ Len(monotone_mountains) >= 2

\* the input is one loop of three vertices that are not on a line
TriangleInput ==
    /\ Len(polygons) = 1
    /\ Len(polygons[1]) = 3
    /\ Cross(verts[1], verts[2], verts[3]) # 0

\* C5: for a non-degenerate triangle given as one loop of three vertices,
\* in either winding, and each order of insertion of its three edges, the
\* function raises nothing and returns exactly one triangle: the three
\* input vertices, counter-clockwise.
C5_TriangleIdempotence ==
    TriangleInput =>
        /\ pc # "error"
        /\ pc = "done" =>
              /\ Len(result.triangles) = 1
              /\ Range(result.triangles[1]) = {1, 2, 3}
              /\ StrictlyCCW(result.triangles[1])

\* the triangle given clockwise was returned, its three edges inserted in
\* the order 3, 1, 2
C5_Witness ==
    /\ TriangleInput
    /\ ClockwiseLoop(1)
    /\ pc = "done"
    /\ order = <<3, 1, 2>>
    /\ Len(result.triangles) = 1

\* the loops that are outer loops (inside an even number of other loops)
\* and the holes
OuterLoops == {k \in DOMAIN polygons : Depth(k) % 2 = 0}

HoleLoops == {k \in DOMAIN polygons : Depth(k) % 2 = 1}

\* C6: for a valid input with no three collinear vertices, c outer loops, h
\* holes and n vertices, the returned list holds n - 2c + 2h triangles for
\* every insertion order, and every vertex of a triangle is a vertex of the
\* input.
C6_TriangleCount ==
    (pc = "done" /\ ValidInput /\ GeneralPosition) =>
        /\ Len(result.triangles) =
              Len(verts) - 2 * Cardinality(OuterLoops)
                         + 2 * Cardinality(HoleLoops)
        /\ \A i \in DOMAIN result.triangles :
              Range(result.triangles[i]) \subseteq DOMAIN verts

\* the function returned for two disjoint triangles: two outer loops
C6_Witness ==
    /\ pc = "done"
    /\ ValidInput /\ GeneralPosition
    /\ Cardinality(OuterLoops) = 2 /\ HoleLoops = {}
    /\ Len(result.triangles) = 2

\* the edges in the order get_edges lists them
UnshuffledOrder == [i \in DOMAIN edges |-> i]

\* C7: for a valid input, the returned triangles taken as a set of vertex
\* triples are the same set for every permutation of the insertion order
\* (the set the unshuffled order gives); only the order of the list may
\* differ.
C7_PermutationInvariance ==
    (pc = "done" /\ ValidInput) =>
        LET unshuffled == TriangulatePolygonalArea(UnshuffledOrder)
        IN /\ unshuffled.err = ""
           /\ Range(result.triangles) = Range(unshuffled.triangles)

\* a run with another order than the unshuffled one returned its triangles
C7_Witness ==
    /\ pc = "done"
    /\ ValidInput
    /\ order # UnshuffledOrder
    /\ Len(result.triangles) >= 4
    /\ Range(result.triangles)
          = Range(TriangulatePolygonalArea(UnshuffledOrder).triangles)

\* C8: for a fixed input and a fixed insertion order the outcome is fixed:
\* the returned list of triples, in its order, is the one of the run that
\* takes the first element of every registry set, whichever elements the
\* run took; so is the error of a run that fails once the edges are
\* inserted.
C8_DeterminismGivenOrder ==
    /\ pc = "done" =>
          TriangulatePolygonalArea(order)
              = [triangles |-> result.triangles, err |-> ""]
    /\ (pc = "error" /\ edges # <<>> /\ Len(order) = Len(edges)) =>
          TriangulatePolygonalArea(order).err = err

\* a run returned whose labelling read a registry set of two trapezoids or
\* more
C8_Witness ==
    /\ pc = "done"
    /\ Len(result.triangles) >= 2
    /\ \E t \in Range(all_trapezoids) :
          /\ traps[t].left_edge # None /\ traps[t].right_edge # None
          /\ Cardinality(RegGet(traps_by_right_edge, traps[t].left_edge)) >= 2

\* the inputs the pre-validation is said to reject: a loop of fewer than
\* three vertices, a vertex twice in a loop, a loop crossing or touching
\* itself
FewerThanThreeVertices == \E k \in DOMAIN polygons : Len(polygons[k]) < 3

DuplicateVertexInLoop ==
    \E k \in DOMAIN polygons : \E i, j \in DOMAIN polygons[k] :
        i # j /\ verts[polygons[k][i]] = verts[polygons[k][j]]

SelfIntersectingLoop ==
    \E s, t \in InputSides : s # t /\ s[1] = t[1] /\ ~SidesCompatible(s, t)

RejectedInput ==
    FewerThanThreeVertices \/ DuplicateVertexInLoop \/ SelfIntersectingLoop

\* the search structure and the registry as they are before the first
\* insertion
NothingInserted ==
    /\ already_inserted = {}
    /\ order = <<>>
    /\ Len(nodes) <= 1
    /\ traps_by_right_edge = <<>>

RECURSIVE TrianglesToClip(_, _)
TrianglesToClip(mountains, i) ==
    IF i > Len(mountains) THEN 0
    ELSE (IF Len(mountains[i].chain) < 3 THEN 0
          ELSE Len(mountains[i].chain) - 2)
         + TrianglesToClip(mountains, i + 1)

\* C10: nothing is recovered from: an error raised by a step, BadVertexOrder
\* of the Triangle constructor included, is the result of the run, which
\* then returns no list, not even the triangles made so far; a list is
\* returned only by a run without error, and it holds one triangle for
\* every vertex clipped from a mountain, no triple skipped.
C10_ErrorsPropagate ==
    /\ (err # "") <=> (pc = "error")
    /\ pc = "error" => result = NotReturned
    /\ result.returned =>
          /\ pc = "done" /\ err = ""
          /\ Len(result.triangles) =
                TrianglesToClip(
                    MakeMonotoneMountains(traps, inside_trapezoids).list, 1)

\* BadVertexOrder ended a run that had made a triangle already
C10_Witness ==
    /\ pc = "error"
    /\ err = "BadVertexOrder"
    /\ triangles # <<>>
    /\ result = NotReturned

\* the inside trapezoids of the run with the given shuffled order, alone in
\* its process
InsideOfRunAlone(shuffled) ==
    SelectInsideTrapezoids(Trapezoidation(shuffled).traps,
        FirstPick(Trapezoidation(shuffled).reg),
        GetAllTraps(Trapezoidation(shuffled).nodes, search_tree), 1, <<>>).list

\* C11: runs on independent inputs do not interfere through the right-edge
\* registry.  Every registry set a run reads, the set of one of its own
\* edges, holds only trapezoids the run created, and in a run that follows
\* an earlier run (completed or failed) the inside trapezoids, the
\* triangles returned and the error raised are those of the same run alone
\* in its process.
C11_RunsDoNotInterfere ==
    /\ \A e \in DOMAIN edges :
          RegGet(traps_by_right_edge, e) \subseteq DOMAIN traps
    /\ EarlierKeys # {} =>
          /\ pc = "mountains" => inside_trapezoids = InsideOfRunAlone(order)
          /\ pc = "done" =>
                TriangulatePolygonalArea(order)
                    = [triangles |-> result.triangles, err |-> ""]
          /\ (pc = "error" /\ edges # <<>> /\ Len(order) = Len(edges)) =>
                TriangulatePolygonalArea(order).err = err

\* a run on the pentagon completed after a run that failed on the loop of
\* two vertices, whose two edges are still keys of the registry
C11_Witness ==
    /\ Cardinality(EarlierKeys) = 2
    /\ \E k \in EarlierKeys : traps_by_right_edge[k] # {}
    /\ pc = "done"
    /\ Len(result.triangles) = 3
    /\ inside_trapezoids # <<>>

\* C12: a run that fails with an error leaves the right-edge registry as it
\* was before the run: the same keys and the same trapezoid sets.  Before
\* the only run of a process the registry is empty.
C12_FailureLeavesRegistryUnaltered ==
    pc = "error" => traps_by_right_edge = <<>>

(***************************************************************************)
(* The decomposition between two insertions                                *)
(***************************************************************************)

\* insert_vertex_if_necessary or insert_edge has just returned
AfterInsertion == pc \in {"bottom", "edge", "loop"}

\* insert_edge has just returned
AfterEdgeInsertion == pc = "loop" /\ order # <<>>

\* the trapezoids of the leaves of the DAG
Leaves == Range(GetAllTraps(nodes, search_tree))

Above(t) == Range(traps[t].trapezoids_above)

Below(t) == Range(traps[t].trapezoids_below)

AdjacencySymmetry ==
    /\ \A t \in Leaves : \A u \in Leaves : u \in Above(t) <=> t \in Below(u)
    /\ \A t \in Leaves : Above(t) \cup Below(t) \subseteq Leaves

\* C13: adjacency symmetry.  After every completed insert_vertex and
\* insert_edge, for all leaf trapezoids T and U, U is above T if and only if
\* T is below U, and the adjacency lists of the leaf trapezoids hold leaf
\* trapezoids only, none that was merged away.
C13_AdjacencySymmetry == AfterInsertion => AdjacencySymmetry

\* C13 on valid input: the same after every completed insert_vertex and
\* insert_edge of a run on simple loops that do not meet.
C13_AdjacencySymmetryOnValidInput ==
    (AfterInsertion /\ ValidInput) => AdjacencySymmetry

\* the area with a hole with all its edges inserted, trapezoids merged away
\* and a leaf trapezoid with two trapezoids above
C13_Witness ==
    /\ AfterEdgeInsertion
    /\ ValidInput
    /\ Len(polygons) = 2
    /\ Len(order) = Len(edges)
    /\ Cardinality(Leaves) < Len(traps)
    /\ \E t \in Leaves : Cardinality(Above(t)) = 2

\* the trapezoid a lies to the left of the trapezoid b along the horizontal
\* through the vertex v: the right edge of a is not to the right of the left
\* edge of b there
LiesToTheLeft(a, b, v) ==
    /\ traps[a].right_edge # None
    /\ traps[b].left_edge # None
    /\ LET xa == GetXByY(verts, edges, traps[a].right_edge, verts[v][2], 1)
           xb == GetXByY(verts, edges, traps[b].left_edge, verts[v][2], 1)
       IN xa.n * xb.d <= xb.n * xa.d

\* an adjacency list along the horizontal through v: at most two entries,
\* no repetition, the first to the left of the second
OrderedNeighbours(l, v) ==
    /\ Len(l) <= 2
    /\ Len(l) = 2 => /\ l[1] # l[2]
                     /\ v # None
                     /\ LiesToTheLeft(l[1], l[2], v)
                     /\ ~LiesToTheLeft(l[2], l[1], v)

NeighbourArityAndOrder ==
    \A t \in Leaves :
        /\ OrderedNeighbours(traps[t].trapezoids_above, traps[t].top_vertex)
        /\ OrderedNeighbours(traps[t].trapezoids_below, traps[t].bottom_vertex)

\* C14: neighbour arity and order.  After every completed insert_vertex and
\* insert_edge every leaf trapezoid has at most two trapezoids above and at
\* most two below, without repetition, and of two entries the first lies to
\* the left of the second along the shared horizontal.
C14_NeighbourArityAndOrder == AfterInsertion => NeighbourArityAndOrder

\* C14 on valid input
C14_NeighbourArityAndOrderOnValidInput ==
    (AfterInsertion /\ ValidInput) => NeighbourArityAndOrder

\* an area with horizontal sides with all its edges inserted, a leaf
\* trapezoid with two trapezoids above and one with two below
C14_Witness ==
    /\ AfterEdgeInsertion
    /\ ValidInput
    /\ HorizontalInput
    /\ Len(order) = Len(edges)
    /\ \E t \in Leaves : Len(traps[t].trapezoids_above) = 2
    /\ \E t \in Leaves : Len(traps[t].trapezoids_below) = 2

\* the leaf trapezoids of the current search tree whose right edge is e
LeavesOfRightEdge(e) == {t \in Leaves : traps[t].right_edge = e}

\* the trapezoids created so far that no leaf of the search tree carries:
\* those merged into another one
MergedAway == DOMAIN traps \ Leaves

RegistryAgreement ==
    /\ \A e \in DOMAIN edges :
          RegGet(traps_by_right_edge, e) = LeavesOfRightEdge(e)
    /\ \A t \in MergedAway :
          \A k \in DOMAIN traps_by_right_edge : t \notin traps_by_right_edge[k]
    /\ \A t \in Leaves :
          traps[t].right_edge # None =>
             Cardinality({k \in DOMAIN traps_by_right_edge :
                             t \in traps_by_right_edge[k]}) = 1

\* C15: registry agreement.  After every completed insert_vertex and
\* insert_edge of a run, for every edge e of the run the set
\* traps_by_right_edge[e] is exactly the set of the leaf trapezoids of the
\* current search tree whose right_edge is e; a trapezoid merged away is in
\* no set of the registry and every live trapezoid with a right edge is in
\* exactly one.
C15_RegistryAgreement == AfterInsertion => RegistryAgreement

\* all the edges inserted, trapezoids merged away, and an edge that is the
\* right edge of several leaf trapezoids
C15_Witness ==
    /\ AfterEdgeInsertion
    /\ Len(order) = Len(edges)
    /\ MergedAway # {}
    /\ \E e \in DOMAIN edges : Cardinality(LeavesOfRightEdge(e)) >= 2

\* the leaves of the search tree reachable from the node n, as nodes
RECURSIVE ReachableLeaves(_, _)
ReachableLeaves(N, n) ==
    IF N[n].node_type = "TRAPEZOID" THEN {n}
    ELSE ReachableLeaves(N, N[n].left_child)
            \cup ReachableLeaves(N, N[n].right_child)

LeafNodes == ReachableLeaves(nodes, search_tree)

DagLeafUniqueness ==
    /\ \A n \in LeafNodes :
          LET t == nodes[n].associated_obj
              m == traps[t].associated_node
          IN /\ m # None
             /\ nodes[m].node_type = "TRAPEZOID"
             /\ m \in LeafNodes
             /\ nodes[m].associated_obj = t
    /\ \A n, m \in LeafNodes :
          n # m => nodes[n].associated_obj # nodes[m].associated_obj

\* C16: DAG leaf uniqueness.  After every completed insert_vertex and
\* insert_edge, every trapezoid carried by a leaf reachable from the root has
\* an associated_node that is a TRAPEZOID node reachable from the root whose
\* trapezoid is that same trapezoid, and no two distinct reachable leaves
\* carry the same trapezoid.
C16_DagLeafUniqueness == AfterInsertion => DagLeafUniqueness

\* all the edges inserted, trapezoids merged away and a leaf with several
\* parents
C16_Witness ==
    /\ AfterEdgeInsertion
    /\ Len(order) = Len(edges)
    /\ MergedAway # {}
    /\ \E n \in LeafNodes : Len(nodes[n].parents) >= 2

\* The points the location is tried on, fractions of denominator 2 whose
\* numerators are given here.  Their heights are those of the vertices of
\* the area, the middles of two consecutive ones, and one value on each side
\* beyond them; their abscissas are the middles of two consecutive abscissas
\* of vertices and one value on each side beyond them.
MinOf(S) == CHOOSE m \in S : \A n \in S : m <= n

MaxOf(S) == CHOOSE m \in S : \A n \in S : m >= n

Beyond(S) == {2 * MinOf(S) - 2, 2 * MaxOf(S) + 2}

Middles(S) ==
    {ab[1] + ab[2] :
        ab \in {c \in S \X S : /\ c[1] < c[2]
                               /\ \A m \in S : ~(c[1] < m /\ m < c[2])}}

SamplePoints ==
    LET xs == {verts[v][1] : v \in DOMAIN verts}
        ys == {verts[v][2] : v \in DOMAIN verts}
    IN {[xn |-> i, xd |-> 2, yn |-> j, yd |-> 2] :
           i \in Beyond(xs) \cup Middles(xs),
           j \in Beyond(ys) \cup Middles(ys) \cup {2 * y : y \in ys}}

\* twice the signed area of the triangle bottom of e, top of e, p, times the
\* denominators of p: negative when p is to the right of the line of e
SideOfEdge(e, p) ==
    LET b == verts[edges[e].bottom_vertex]
        t == verts[edges[e].top_vertex]
    IN (t[1] - b[1]) * (p.yn - b[2] * p.yd) * p.xd
          - (t[2] - b[2]) * (p.xn - b[1] * p.xd) * p.yd

IsHorizontalEdge(e) ==
    verts[edges[e].bottom_vertex][2] = verts[edges[e].top_vertex][2]

\* p is off the edge e and to its right (a horizontal edge has to its right
\* the points of its line beyond its top vertex, the rightmost one)
StrictlyRightOf(e, p) ==
    IF IsHorizontalEdge(e)
    THEN /\ p.yn = verts[edges[e].top_vertex][2] * p.yd
         /\ p.xn > verts[edges[e].top_vertex][1] * p.xd
    ELSE SideOfEdge(e, p) < 0

StrictlyLeftOf(e, p) ==
    IF IsHorizontalEdge(e)
    THEN /\ p.yn = verts[edges[e].bottom_vertex][2] * p.yd
         /\ p.xn < verts[edges[e].bottom_vertex][1] * p.xd
    ELSE SideOfEdge(e, p) > 0

\* p is strictly inside the trapezoid t: between its bottom and its top
\* vertex in the lexicographic order, strictly between its side edges
StrictlyInsideTrapezoid(t, p) ==
    /\ traps[t].top_vertex # None => Gt(Pt(verts, traps[t].top_vertex), p)
    /\ traps[t].bottom_vertex # None =>
          Gt(p, Pt(verts, traps[t].bottom_vertex))
    /\ traps[t].left_edge # None => StrictlyRightOf(traps[t].left_edge, p)
    /\ traps[t].right_edge # None => StrictlyLeftOf(traps[t].right_edge, p)

\* the vertices inserted so far: the ends of the edges inserted or being
\* inserted
InsertedEdges == Range(order)

\* p is one of the vertices inserted or lies on one of the edges inserted
OnBoundary(p) ==
    \E e \in InsertedEdges :
       LET b == verts[edges[e].bottom_vertex]
           t == verts[edges[e].top_vertex]
       IN /\ SideOfEdge(e, p) = 0
          /\ (p.xn - b[1] * p.xd) * (p.xn - t[1] * p.xd) <= 0
          /\ (p.yn - b[2] * p.yd) * (p.yn - t[2] * p.yd) <= 0

\* the leaf the descent from the root ends at for the point p
Locate(p) == SearchAreaContainingVertex([nodes |-> nodes], search_tree, p)

\* the leaf trapezoids the point p is strictly inside of
Containing(leaves, p) == {t \in leaves : StrictlyInsideTrapezoid(t, p)}

\* the descent for p ends at the leaf of each of the trapezoids of inside
LocatedIn(p, inside) ==
    \A t \in inside : Locate(p) = traps[t].associated_node

\* p, when off the boundaries, is in exactly one of the leaf trapezoids
InExactlyOne(p, inside) == ~OnBoundary(p) => Cardinality(inside) = 1

\* the descent for p ends in the trapezoids of inside, and p is in one
\* trapezoid when off the boundaries
LocatedAndInExactlyOne(p, inside) ==
    LocatedIn(p, inside) /\ InExactlyOne(p, inside)

LocateCorrectnessAndTilingOn(points, leaves) ==
    \A p \in points : LocatedAndInExactlyOne(p, Containing(leaves, p))

\* C17: locate correctness and tiling.  After every completed edge insertion
\* on a valid input, for every leaf trapezoid T and every point strictly
\* inside T (between its bottom and top vertex in lexicographic order and
\* strictly between its side edges) the descent from the root ends at the
\* leaf of T, so that every point off the boundaries belongs to exactly one
\* leaf trapezoid, also after leaves were redirected by merges.
C17_LocateCorrectnessAndTiling ==
    (AfterEdgeInsertion /\ ValidInput) =>
       LocateCorrectnessAndTilingOn(SamplePoints, Leaves)

\* all the edges of a valid area inserted, and a leaf with several parents,
\* left by a merge, that the descent reaches for a point strictly inside its
\* trapezoid at the height of a vertex of the area
C17_Witness ==
    /\ AfterEdgeInsertion
    /\ ValidInput
    /\ Len(order) = Len(edges)
    /\ \E n \in LeafNodes :
          /\ Len(nodes[n].parents) >= 2
          /\ \E p \in SamplePoints :
                /\ \E v \in DOMAIN verts : p.yn = verts[v][2] * p.yd
                /\ StrictlyInsideTrapezoid(nodes[n].associated_obj, p)
                /\ Locate(p) = n

\* two leaf trapezoids, one below the other, with the same side edges
RedundantPair(t, u) ==
    /\ u \in Range(traps[t].trapezoids_below)
    /\ traps[t].left_edge = traps[u].left_edge
    /\ traps[t].right_edge = traps[u].right_edge

NoRedundantPair == \A t, u \in Leaves : ~RedundantPair(t, u)

\* C18: after every completed insert_edge, its merge pass included, the
\* decomposition contains no two leaf trapezoids T and U, with U in
\* T.trapezoids_below, that have the same left_edge and the same right_edge.
C18_NoRedundantPair == AfterEdgeInsertion => NoRedundantPair

\* an edge insertion that merged trapezoids, leaving a leaf that has two
\* trapezoids below and a trapezoid whose bottom vertex is not an end of its
\* side edges
C18_Witness ==
    /\ AfterEdgeInsertion
    /\ MergedAway # {}
    /\ \E t \in Leaves : Len(traps[t].trapezoids_below) = 2
    /\ \E t \in Leaves :
          /\ Len(traps[t].trapezoids_below) = 1
          /\ traps[t].left_edge # None
          /\ traps[t].right_edge # None
          /\ traps[t].bottom_vertex # edges[traps[t].left_edge].bottom_vertex
          /\ traps[t].bottom_vertex # edges[traps[t].right_edge].bottom_vertex

\* Node.insert_edge of the edge cur up to its call of
\* merge_redundant_trapezoids: the heap and the couples handed to it
BeforeMerge ==
    LET start_node == SearchAreaContainingVertex(Heap, search_tree,
                          MidPoint(verts, edges, cur))
        down == FindNodesToSplitInDirection(Heap, start_node, cur, FALSE)
        up == FindNodesToSplitInDirection(Heap, start_node, cur, TRUE)
        split == SplitNodes(Heap,
                    Reverse(up.list) \o <<start_node>> \o down.list,
                    1, cur, <<>>)
    IN IF down.err # "" \/ up.err # "" \/ split.heap.err # ""
       THEN [heap |-> Raise(Heap, "raised"), couples |-> <<>>]
       ELSE [heap |-> ManageAdjacentTrapezoidsAfterEdgeSplit(split.heap, cur,
                         split.couples, top_just_inserted,
                         bottom_just_inserted),
             couples |-> split.couples]

\* the calls of merge_trapezoids_stack made by merge_redundant_trapezoids
\* from the side on (1 left, 2 right), in order: the stack handed over and
\* the heap at the call
RECURSIVE MergeCallsFrom(_, _, _, _, _)
MergeCallsFrom(H, couples, side, i, stack_to_merge) ==
    IF H.err # "" THEN <<>>
    ELSE IF i > Len(couples)
    THEN <<[heap |-> H, stack |-> stack_to_merge]>>
            \o (IF side = 2 THEN <<>>
                ELSE MergeCallsFrom(MergeTrapezoidsStack(H, stack_to_merge),
                        couples, 2, 2, <<couples[1][2]>>))
    ELSE IF ~ContinuesStack(H, stack_to_merge[Len(stack_to_merge)],
                            couples[i][side])
    THEN <<[heap |-> H, stack |-> stack_to_merge]>>
            \o MergeCallsFrom(MergeTrapezoidsStack(H, stack_to_merge),
                   couples, side, i + 1, <<couples[i][side]>>)
    ELSE MergeCallsFrom(H, couples, side, i + 1,
            Append(stack_to_merge, couples[i][side]))

MergeCalls ==
    IF BeforeMerge.heap.err # "" THEN <<>>
    ELSE MergeCallsFrom(BeforeMerge.heap, BeforeMerge.couples, 1, 2,
                        <<BeforeMerge.couples[1][1]>>)

\* every two consecutive members of the stack have the same side edges, and
\* each is a neighbour of the other, the upper one above the lower one
IsVerticalStack(H, stack) ==
    \A k \in 1..(Len(stack) - 1) :
       /\ H.traps[stack[k]].left_edge = H.traps[stack[k + 1]].left_edge
       /\ H.traps[stack[k]].right_edge = H.traps[stack[k + 1]].right_edge
       /\ stack[k] \in Range(H.traps[stack[k + 1]].trapezoids_above)
       /\ stack[k + 1] \in Range(H.traps[stack[k]].trapezoids_below)

\* C19: whenever merge_trapezoids_stack is called with a group of two or
\* more trapezoids during an edge insertion on valid input, the group is a
\* true vertical stack: every two consecutive members have the same
\* left_edge and right_edge, the upper one is in the trapezoids_above of the
\* lower one and the lower one is in the trapezoids_below of the upper one.
C19_MergedGroupsAreStacks ==
    (pc = "edge" /\ ValidInput) =>
       \A c \in Range(MergeCalls) :
          Len(c.stack) >= 2 => IsVerticalStack(c.heap, c.stack)

\* the insertion of an edge of a valid area during which
\* merge_trapezoids_stack is called with a group of three trapezoids or more
C19_Witness ==
    /\ pc = "edge"
    /\ ValidInput
    /\ \E c \in Range(MergeCalls) : Len(c.stack) >= 3

\* the search tree after old.replace_by_another_node_in_tree(new) is called
\* in the current state
Replaced(old, new) == ReplaceByAnotherNodeInTree(Heap, old, new).nodes

\* the postcondition of the replacement of the leaf old by the leaf new, R
\* being the search tree after it
ReplacementDone(R, old, new) ==
    /\ DOMAIN R = DOMAIN nodes
    /\ \A parent \in Range(nodes[old].parents) :
          /\ nodes[parent].left_child = old => R[parent].left_child = new
          /\ nodes[parent].right_child = old => R[parent].right_child = new
    /\ Range(nodes[old].parents) \subseteq Range(R[new].parents)
    /\ \A n \in ReachableLeaves(R, search_tree) :
          n # old /\ R[n].associated_obj # nodes[old].associated_obj
    /\ \A n \in DOMAIN nodes :
          /\ nodes[n].left_child # old => R[n].left_child = nodes[n].left_child
          /\ nodes[n].right_child # old =>
                R[n].right_child = nodes[n].right_child

\* C20: replace_by_another_node_in_tree(old, new) on two distinct leaf
\* nodes: afterwards every parent of old that had old as its left child has
\* new as its left child and every parent that had old as its right child
\* has new as its right child, the parents of new include all the former
\* parents of old, and neither old nor its trapezoid is reachable from the
\* root; all the other child pointers are unchanged.
\* The leaves are drawn from the search trees of the complete
\* trapezoidations, for every area and every order of insertion.
C20_ReplaceByAnotherNode ==
    (pc = "loop" /\ Len(order) = Len(edges)) =>
       \A old, new \in LeafNodes :
          old # new => ReplacementDone(Replaced(old, new), old, new)

\* a search tree with a leaf that is the left child of two parents, a leaf
\* that is the right child of two parents, and the replacement of a leaf of
\* two parents by another one, which then has four
C20_Witness ==
    /\ pc = "loop"
    /\ Len(order) = Len(edges)
    /\ \E old \in LeafNodes : \E p, q \in Range(nodes[old].parents) :
          p # q /\ nodes[p].left_child = old /\ nodes[q].left_child = old
    /\ \E old \in LeafNodes : \E p, q \in Range(nodes[old].parents) :
          p # q /\ nodes[p].right_child = old /\ nodes[q].right_child = old
    /\ \E old, new \in LeafNodes :
          /\ old # new
          /\ Len(nodes[old].parents) = 2
          /\ Len(nodes[new].parents) = 2
          /\ Len(Replaced(old, new)[new].parents) = 4
          /\ ReplacementDone(Replaced(old, new), old, new)

\* the list of the nodes Node.insert_edge splits for the edge cur: the
\* reversed upward walk, the start node, the downward walk (empty when a
\* walk raises)
NodesToSplit ==
    LET start_node == SearchAreaContainingVertex(Heap, search_tree,
                          MidPoint(verts, edges, cur))
        down == FindNodesToSplitInDirection(Heap, start_node, cur, FALSE)
        up == FindNodesToSplitInDirection(Heap, start_node, cur, TRUE)
    IN IF down.err # "" \/ up.err # "" THEN <<>>
       ELSE Reverse(up.list) \o <<start_node>> \o down.list

\* the trapezoids of these nodes
TrapsToSplit ==
    [i \in DOMAIN NodesToSplit |-> nodes[NodesToSplit[i]].associated_obj]

\* the point of the edge e at the height of the vertex v (the vertex itself
\* on a horizontal edge, whose points are ordered by x)
PointOfEdgeAt(e, v) ==
    IF IsHorizontalEdge(e)
    THEN [n |-> verts[v][1], d |-> 1, yn |-> verts[v][2]]
    ELSE [n |-> GetXByY(verts, edges, e, verts[v][2], 1).n,
          d |-> GetXByY(verts, edges, e, verts[v][2], 1).d,
          yn |-> verts[v][2]]

\* the middle of the piece of the edge e between the heights of the bottom
\* and of the top vertex of the trapezoid t
MiddleOfEdgeIn(e, t) ==
    LET b == PointOfEdgeAt(e, traps[t].bottom_vertex)
        a == PointOfEdgeAt(e, traps[t].top_vertex)
    IN [xn |-> b.n * a.d + a.n * b.d, xd |-> 2 * a.d * b.d,
        yn |-> b.yn + a.yn, yd |-> 2]

\* p is not strictly to the left (to the right) of the edge e
NotLeftOf(e, p) ==
    IF IsHorizontalEdge(e)
    THEN p.xn >= verts[edges[e].bottom_vertex][1] * p.xd
    ELSE SideOfEdge(e, p) <= 0

NotRightOf(e, p) ==
    IF IsHorizontalEdge(e)
    THEN p.xn <= verts[edges[e].top_vertex][1] * p.xd
    ELSE SideOfEdge(e, p) >= 0

\* p is not beyond the side edges of the trapezoid t
BetweenSides(t, p) ==
    /\ traps[t].left_edge # None => NotLeftOf(traps[t].left_edge, p)
    /\ traps[t].right_edge # None => NotRightOf(traps[t].right_edge, p)

\* the trapezoid t has no height: its two vertices are at the same height
\* and only the lexicographic order tells them apart
HasNoHeight(t) ==
    verts[traps[t].top_vertex][2] = verts[traps[t].bottom_vertex][2]

\* the edge e passes through the trapezoid t: the middle of the piece of e
\* between the heights of the two vertices of t is strictly inside t.  When
\* t has no height and e is not horizontal the piece is the one point of e
\* at the height of t, which has to be between the sides of t.
CrossedBy(t, e) ==
    /\ traps[t].top_vertex # None
    /\ traps[t].bottom_vertex # None
    /\ IF HasNoHeight(t) /\ ~IsHorizontalEdge(e)
       THEN BetweenSides(t, MiddleOfEdgeIn(e, t))
       ELSE StrictlyInsideTrapezoid(t, MiddleOfEdgeIn(e, t))

OrderedTopToBottom(l, e) ==
    /\ l # <<>>
    /\ traps[l[1]].top_vertex = edges[e].top_vertex
    /\ traps[l[Len(l)]].bottom_vertex = edges[e].bottom_vertex
    /\ \A i \in 1..(Len(l) - 1) :
          l[i] \in Range(traps[l[i + 1]].trapezoids_above)
    /\ \A i, j \in DOMAIN l : i # j => l[i] # l[j]
    /\ \A i \in DOMAIN l : CrossedBy(l[i], e)

\* C21: in insert_edge on valid input, the list of the trapezoids split (the
\* reversed upward walk, then the start trapezoid, then the downward walk) is
\* ordered top to bottom and contiguous: the first one has top_vertex equal
\* to the top vertex of the edge, the last one has bottom_vertex equal to
\* its bottom vertex, each one is in the trapezoids_above of the next, no
\* trapezoid occurs twice, and each is crossed by the inserted edge.
C21_SplitListTopToBottom ==
    (pc = "edge" /\ ValidInput) => OrderedTopToBottom(TrapsToSplit, cur)

\* the insertion of an edge of a valid area for which the upward walk adds
\* two trapezoids or more to the start one and the downward walk one or more
C21_Witness ==
    /\ pc = "edge"
    /\ ValidInput
    /\ \E i \in 3..(Len(NodesToSplit) - 1) :
          NodesToSplit[i] = SearchAreaContainingVertex(Heap, search_tree,
                                MidPoint(verts, edges, cur))
    /\ OrderedTopToBottom(TrapsToSplit, cur)

\* the ends of the edges of the set es
EndsOf(es) ==
    {edges[e].top_vertex : e \in es} \cup {edges[e].bottom_vertex : e \in es}

\* the VERTEX nodes of the vertex v, one per call of insert_vertex for v
VertexNodesOf(v) ==
    {n \in DOMAIN nodes :
        nodes[n].node_type = "VERTEX" /\ nodes[n].associated_obj = v}

\* the edges that have an EDGE node: those insert_edge was called for
EdgesWithNodes ==
    {nodes[n].associated_obj : n \in {m \in DOMAIN nodes :
                                        nodes[m].node_type = "EDGE"}}

\* the vertices inserted at this point of the loop: the ends of the edges
\* inserted, the top of the current edge once the first call is made, its
\* bottom once the second is made
InsertedByNow ==
    EndsOf(InsertedEdges)
       \cup (IF pc \in {"bottom", "edge"} THEN {edges[cur].top_vertex}
             ELSE {})
       \cup (IF pc = "edge" THEN {edges[cur].bottom_vertex} ELSE {})

InsertionDiscipline ==
    /\ \A i, j \in DOMAIN order : i # j => order[i] # order[j]
    /\ pc \in {"bottom", "edge"} => cur \notin InsertedEdges
    /\ already_inserted = InsertedByNow
    /\ \A v \in DOMAIN verts :
          Cardinality(VertexNodesOf(v)) =
             IF v \in already_inserted THEN 1 ELSE 0
    /\ EdgesWithNodes = InsertedEdges
    /\ pc \in {"bottom", "edge"} =>
          (top_just_inserted <=>
              edges[cur].top_vertex \notin EndsOf(InsertedEdges))
    /\ pc = "edge" =>
          (bottom_just_inserted <=>
              edges[cur].bottom_vertex \notin EndsOf(InsertedEdges))
    /\ pc \notin {"loop", "bottom", "edge"} => InsertedEdges = DOMAIN edges

\* C22: in trapezoidation, for each edge taken in the shuffled order,
\* insert_vertex is called for its top endpoint and then for its bottom
\* endpoint, each only if that vertex was not inserted earlier, and only then
\* insert_edge is called; hence every vertex is inserted exactly once, before
\* any edge incident to it, every edge exactly once, and top_just_inserted
\* (bottom_just_inserted) is true exactly when the edge is the first edge
\* inserted that is incident to its top (bottom) endpoint.
C22_InsertionDiscipline ==
    pc \notin {"start", "error"} => InsertionDiscipline

\* an edge about to be inserted whose top endpoint was inserted with an
\* earlier edge and whose bottom endpoint was just inserted, and another
\* edge still to come
C22_Witness ==
    /\ pc = "edge"
    /\ ~top_just_inserted
    /\ bottom_just_inserted
    /\ Len(order) >= 2
    /\ Cardinality(Remaining) >= 2
    /\ InsertionDiscipline

\* The points the choice of a child is tried on: the vertices of the area
\* and the middles of its edges, which are the points the program searches
\* for, and the points of the grid.
QueryPoints ==
    {Pt(verts, v) : v \in DOMAIN verts}
       \cup {MidPoint(verts, edges, e) : e \in DOMAIN edges}
       \cup SamplePoints

\* the nodes of the search tree that are not leaves
InnerNodes == {n \in DOMAIN nodes : nodes[n].node_type # "TRAPEZOID"}

\* p is strictly to the right of the edge e at the height of p (the x of a
\* horizontal edge is the one of its middle)
RightOfEdgeAtHeight(e, p) ==
    IF IsHorizontalEdge(e)
    THEN 2 * p.xn > (verts[edges[e].bottom_vertex][1]
                        + verts[edges[e].top_vertex][1]) * p.xd
    ELSE SideOfEdge(e, p) < 0

\* at an EDGE node the query goes right exactly when it is strictly right of
\* the edge, and left otherwise
EdgeNodeChoice(n, p) ==
    /\ RightOfEdgeAtHeight(nodes[n].associated_obj, p) =>
          RelevantChild(Heap, n, p) = nodes[n].right_child
    /\ ~RightOfEdgeAtHeight(nodes[n].associated_obj, p) =>
          RelevantChild(Heap, n, p) = nodes[n].left_child

\* at a VERTEX node the query goes left exactly when it is strictly below
\* the vertex, and right when it is above or equal
VertexNodeChoiceEqualToTheRight(n, p) ==
    /\ Gt(Pt(verts, nodes[n].associated_obj), p) =>
          RelevantChild(Heap, n, p) = nodes[n].left_child
    /\ ~Gt(Pt(verts, nodes[n].associated_obj), p) =>
          RelevantChild(Heap, n, p) = nodes[n].right_child

\* at a VERTEX node the query goes right exactly when it is strictly above
\* the vertex, and left when it is below or equal
VertexNodeChoiceEqualToTheLeft(n, p) ==
    /\ Gt(p, Pt(verts, nodes[n].associated_obj)) =>
          RelevantChild(Heap, n, p) = nodes[n].right_child
    /\ ~Gt(p, Pt(verts, nodes[n].associated_obj)) =>
          RelevantChild(Heap, n, p) = nodes[n].left_child

\* the search trees the choice is tried on: those between two edges
AtSearchTree == pc = "loop" /\ err = ""

\* C23: point location at a Vertex node sends the query to the left child
\* exactly when the query is strictly below the vertex of the node in
\* lexicographic order, and to the right child when the query is above or
\* equal to it; at an Edge node it sends the query right exactly when the
\* query is strictly right of the edge at the height of the query.
C23_ChildChoice ==
    AtSearchTree =>
       \A n \in InnerNodes : \A p \in QueryPoints :
          IF nodes[n].node_type = "VERTEX"
          THEN VertexNodeChoiceEqualToTheRight(n, p)
          ELSE EdgeNodeChoice(n, p)

\* C23 with the query equal to the vertex of the node sent to the left
\* child: the query goes right exactly when it is strictly above the vertex
C23_ChildChoiceEqualToTheLeft ==
    AtSearchTree =>
       \A n \in InnerNodes : \A p \in QueryPoints :
          IF nodes[n].node_type = "VERTEX"
          THEN VertexNodeChoiceEqualToTheLeft(n, p)
          ELSE EdgeNodeChoice(n, p)

\* a search tree with a VERTEX node and queries strictly above, strictly
\* below at the same height, and equal to its vertex, and an EDGE node with
\* queries on both sides and on the edge
C23_Witness ==
    /\ AtSearchTree
    /\ \E n \in InnerNodes :
          /\ nodes[n].node_type = "VERTEX"
          /\ \E p, q \in QueryPoints :
                /\ p.yn * q.yd = q.yn * p.yd
                /\ Gt(p, Pt(verts, nodes[n].associated_obj))
                /\ Gt(Pt(verts, nodes[n].associated_obj), q)
                /\ p.yn = verts[nodes[n].associated_obj][2] * p.yd
          /\ RelevantChild(Heap, n, Pt(verts, nodes[n].associated_obj))
                = nodes[n].left_child
    /\ \E n \in InnerNodes :
          /\ nodes[n].node_type = "EDGE"
          /\ \E p, q, r \in QueryPoints :
                /\ SideOfEdge(nodes[n].associated_obj, p) < 0
                /\ SideOfEdge(nodes[n].associated_obj, q) > 0
                /\ SideOfEdge(nodes[n].associated_obj, r) = 0
                /\ RelevantChild(Heap, n, r) = nodes[n].left_child

\* the vertices of the area at the position of the vertex v
AtPositionOf(v) == {w \in DOMAIN verts : verts[w] = verts[v]}

\* the VERTEX nodes of the vertices at the position of v: one per call of
\* insert_vertex for that position
VertexNodesAtPositionOf(v) ==
    {n \in DOMAIN nodes :
        /\ nodes[n].node_type = "VERTEX"
        /\ nodes[n].associated_obj \in AtPositionOf(v)}

\* C24: two vertices are identical if and only if their (x, y) are equal:
\* when two loops of the input contain vertices with the same coordinates,
\* trapezoidation treats them as one vertex and calls insert_vertex only once
\* for that position.
C24_OneVertexPerPosition ==
    pc \notin {"start", "error"} =>
       \A v \in DOMAIN verts :
          /\ Cardinality(VertexNodesAtPositionOf(v)) <= 1
          /\ Cardinality(already_inserted \cap AtPositionOf(v)) <= 1

\* the mountains make_monotone_mountains builds from the inside trapezoids
\* of the state: [list, err]
MountainsEmitted == MakeMonotoneMountains(traps, inside_trapezoids)

\* the edges that are a base for one of the inside trapezoids
BaseEdges ==
    UNION {Range(MountainBases(traps, inside_trapezoids[i])) :
              i \in DOMAIN inside_trapezoids}

\* The chain of a mountain is the list of the vertices of its MonotoneVertex
\* objects from the first one upwards: the above link of a member leads to
\* the next member and its below link to the one before.
WellFormedMountain(m) ==
    /\ Len(m.chain) >= 3
    /\ m.chain[1] = edges[m.base].bottom_vertex
    /\ m.chain[Len(m.chain)] = edges[m.base].top_vertex
    /\ \A i \in 1..(Len(m.chain) - 1) :
          Gt(Pt(verts, m.chain[i + 1]), Pt(verts, m.chain[i]))

OneMountainPerBase(ms) ==
    /\ \A i, j \in DOMAIN ms : i # j => ms[i].base # ms[j].base
    /\ {ms[i].base : i \in DOMAIN ms} = BaseEdges

\* C25: for every mountain emitted by make_monotone_mountains from the
\* inside trapezoids of a valid input, the chain walked via above starts at
\* base.bottom_vertex, ends at base.top_vertex, has at least three vertices
\* and is strictly increasing in lexicographic order, its above and below
\* links being inverse of each other; exactly one mountain is emitted per
\* base edge.
C25_MountainsWellFormed ==
    (pc = "mountains" /\ ValidInput) =>
       /\ MountainsEmitted.err = ""
       /\ \A i \in DOMAIN MountainsEmitted.list :
             WellFormedMountain(MountainsEmitted.list[i])
       /\ OneMountainPerBase(MountainsEmitted.list)

\* the inside trapezoids of a valid area with a hole, from which several
\* mountains are emitted, one of them with a chain of five vertices or more
C25_Witness ==
    /\ pc = "mountains"
    /\ ValidInput
    /\ Len(MountainsEmitted.list) >= 3
    /\ \E i \in DOMAIN MountainsEmitted.list :
          Len(MountainsEmitted.list[i].chain) >= 4

(***************************************************************************)
(* C26: termination of triangulate_monotone_mountain                       *)
(***************************************************************************)

\* a call of triangulate_monotone_mountain is coming
InTriangulation ==
    pc = "triangles" /\ mountain_index <= Len(monotone_mountains)

\* the pass of the cursor the coming call makes
ComingPass ==
    TriangulateCall(monotone_mountains[mountain_index], triangles,
                    angle_threshold)

\* the pass of the retry that follows a pass that ended as r
PassOfRetry(r) ==
    TriangulateCall([monotone_mountains[mountain_index]
                        EXCEPT !.chain = r.chain],
                    r.triangles, RetryThreshold(r.closer))

NoThreeCollinear(chain) ==
    \A i, j, k \in DOMAIN chain :
        (i < j /\ j < k)
           => Cross(verts[chain[i]], verts[chain[j]], verts[chain[k]]) # 0

\* the retry after the pass that ended as r has a threshold strictly larger
\* than the threshold of that pass: larger by more than the epsilon, or of
\* 180 degrees plus the epsilon when no vertex was skipped for its angle
ThresholdRaised(r) ==
    /\ RetryThreshold(r.closer) > angle_threshold
    /\ \/ RetryThreshold(r.closer) > angle_threshold + ANGLE_EPSILON
       \/ /\ r.closer = FlatAngle
          /\ RetryThreshold(r.closer) = FlatAngle + ANGLE_EPSILON

\* the pass that ended as r clipped no ear
ClippedNoEar(r) == r.chain = monotone_mountains[mountain_index].chain

\* C26: on a valid input, with a mountain of which no three vertices are on
\* one line, the pass of every call of triangulate_monotone_mountain ends
\* without an exception; when it leaves the mountain not degenerated the
\* retry has a threshold strictly larger than the one of the pass (by more
\* than ANGLE_EPSILON, or 180 degrees plus ANGLE_EPSILON when nothing was
\* skipped), and the pass of the retry that follows a pass that clipped no
\* ear clips at least one; the mountains the calls have returned from have
\* a chain of two vertices.
C26_EarClippingTerminates ==
    (pc = "triangles" /\ ValidInput) =>
        /\ \A i \in DOMAIN monotone_mountains :
              i < mountain_index => Len(monotone_mountains[i].chain) = 2
        /\ (InTriangulation
              /\ NoThreeCollinear(monotone_mountains[mountain_index].chain))
           => LET r == ComingPass
              IN /\ r.err = ""
                 /\ ~IsDegenerated(r.chain)
                    => /\ ThresholdRaised(r)
                       /\ ClippedNoEar(r)
                          => /\ PassOfRetry(r).err = ""
                             /\ Len(PassOfRetry(r).chain) < Len(r.chain)

\* a call on a mountain of four vertices or more, none on a line with two
\* others, whose pass clips no ear and is followed by a retry that clips one
C26_Witness ==
    /\ ValidInput
    /\ InTriangulation
    /\ Len(monotone_mountains[mountain_index].chain) >= 4
    /\ NoThreeCollinear(monotone_mountains[mountain_index].chain)
    /\ ClippedNoEar(ComingPass)
    /\ Len(PassOfRetry(ComingPass).chain)
          < Len(monotone_mountains[mountain_index].chain)

(***************************************************************************)
(* C27: termination of is_inside                                           *)
(***************************************************************************)

\* the trapezoids is_inside of t takes its left trapezoid from
LeftTraps(t) == RegGet(traps_by_right_edge, traps[t].left_edge)

HasBothSideEdges(t) ==
    traps[t].right_edge # None /\ traps[t].left_edge # None

\* every chain t, u1, u2, ... of left trapezoids, of which the trapezoids of
\* `visited` have been met, takes each trapezoid from a set that is not
\* empty, meets no trapezoid twice and reaches a trapezoid with a missing
\* side edge in `steps` steps at most
RECURSIVE EveryChainEnds(_, _, _)
EveryChainEnds(t, visited, steps) ==
    IF ~HasBothSideEdges(t) THEN TRUE
    ELSE /\ steps > 0
         /\ LeftTraps(t) # {}
         /\ \A u \in LeftTraps(t) :
               /\ u \notin visited
               /\ EveryChainEnds(u, visited \cup {u}, steps - 1)

\* the trapezoidation is over and is_inside has not been evaluated yet
AfterTrapezoidation == pc = "select" /\ err = ""

\* C27: after the trapezoidation of a valid input, for every leaf trapezoid,
\* whichever trapezoids is_inside takes from the registry: the set of the
\* left edge of a trapezoid with both side edges is not empty, the chain of
\* left trapezoids meets no trapezoid twice and reaches a trapezoid with a
\* missing side edge after as many steps as there are edges at most.
C27_IsInsideTerminates ==
    (AfterTrapezoidation /\ ValidInput)
       => \A t \in Range(all_trapezoids) :
             EveryChainEnds(t, {t}, Len(edges))

\* a chain of three steps, the second from a set of two trapezoids or more
C27_Witness ==
    /\ AfterTrapezoidation
    /\ ValidInput
    /\ \E t \in Range(all_trapezoids) :
          /\ HasBothSideEdges(t)
          /\ \E u \in LeftTraps(t) :
                /\ HasBothSideEdges(u)
                /\ Cardinality(LeftTraps(u)) >= 2
                /\ \E v \in LeftTraps(u) :
                      /\ HasBothSideEdges(v)
                      /\ \E w \in LeftTraps(v) : ~HasBothSideEdges(w)

(***************************************************************************)
(* C28: the heights get_x_by_y is evaluated at during the trapezoidation.  *)
(* An evaluation is <<e, yn, yd>>: get_x_by_y of the edge e at y = yn/yd.  *)
(***************************************************************************)

\* the evaluations of is_vertex_at_the_right made by
\* search_area_containing_vertex from the node n for the point p: one at
\* each Edge node of the path
RECURSIVE LocationEvaluations(_, _, _)
LocationEvaluations(H, n, p) ==
    IF H.nodes[n].node_type = "TRAPEZOID" THEN {}
    ELSE (IF H.nodes[n].node_type = "EDGE"
          THEN {<<H.nodes[n].associated_obj, p.yn, p.yd>>}
          ELSE {})
         \cup LocationEvaluations(H, RelevantChild(H, n, p), p)

\* the evaluation made by get_extreme_point of the trapezoid t, and the one
\* is_vertex_at_the_right of the edge makes on the point it returns
ExtremePointEvaluations(H, edge, t, top, right) ==
    LET pt == GetExtremePoint(H, t, top, right)
    IN IF ~pt.ok THEN {}
       ELSE {<<IF right THEN H.traps[t].right_edge ELSE H.traps[t].left_edge,
               pt.yn, pt.yd>>,
             <<edge, pt.yn, pt.yd>>}

\* the evaluations of the walk of __find_nodes_to_split_in_direction from
\* the trapezoid of start_node: at every trapezoid the walk leaves through
\* two adjacent trapezoids
WalkEvaluations(H, start_node, edge, up_direction) ==
    LET walk == FindNodesToSplitInDirection(H, start_node, edge, up_direction)
        left == <<start_node>> \o walk.list
    IN UNION {ExtremePointEvaluations(H, edge,
                 GetAdjacentTraps(H, H.nodes[left[i]].associated_obj,
                                  up_direction)[1],
                 ~up_direction, TRUE) :
              i \in {j \in 1..Len(walk.list) :
                       Len(GetAdjacentTraps(H,
                              H.nodes[left[j]].associated_obj,
                              up_direction)) = 2}}

\* the evaluations of manage_adjacent_trapezoids_on_branch
OnBranchEvaluations(H, edge, left_trap_A, right_trap_A, left_trap_B, right_trap_B, upward_branch) ==
    IF Len(GetAdjacentTraps(H, right_trap_A, ~upward_branch)) # 1 THEN {}
    ELSE LET H1 == SetAdjacentTraps(H, left_trap_A, <<left_trap_B>>,
                                    ~upward_branch)
         IN ExtremePointEvaluations(H1, edge,
               GetAdjacentTraps(H1, right_trap_B, upward_branch)[1],
               ~upward_branch, TRUE)

\* the evaluations of manage_adjacent_trapezoids_after_edge_split on the
\* horizontal borders between the couples, from the i-th border on
RECURSIVE BorderEvaluations(_, _, _, _)
BorderEvaluations(H, edge, couples, i) ==
    IF i > Len(couples) - 1 \/ H.err # "" THEN {}
    ELSE (IF Len(H.traps[couples[i][2]].trapezoids_below) = 2
          THEN OnBranchEvaluations(H, edge, couples[i + 1][1],
                  couples[i + 1][2], couples[i][1], couples[i][2], FALSE)
          ELSE IF Len(H.traps[couples[i + 1][2]].trapezoids_above) = 2
          THEN OnBranchEvaluations(H, edge, couples[i][1], couples[i][2],
                  couples[i + 1][1], couples[i + 1][2], TRUE)
          ELSE {})
         \cup BorderEvaluations(
                 ManageBorders(H, edge, SubSeq(couples, i, i + 1), 1),
                 edge, couples, i + 1)

\* the evaluations of Node.insert_edge of the edge cur, by the part of
\* insert_edge that makes them
InsertEdgeEvaluations ==
    LET start_node == SearchAreaContainingVertex(Heap, search_tree,
                          MidPoint(verts, edges, cur))
        down == FindNodesToSplitInDirection(Heap, start_node, cur, FALSE)
        up == FindNodesToSplitInDirection(Heap, start_node, cur, TRUE)
        split == SplitNodes(Heap,
                    Reverse(up.list) \o <<start_node>> \o down.list,
                    1, cur, <<>>)
    IN [location |-> LocationEvaluations(Heap, search_tree,
                        MidPoint(verts, edges, cur)),
        walk |-> WalkEvaluations(Heap, start_node, cur, FALSE)
                    \cup WalkEvaluations(Heap, start_node, cur, TRUE),
        branch |-> IF down.err # "" \/ up.err # "" \/ split.heap.err # ""
                   THEN {}
                   ELSE BorderEvaluations(
                           ManageAdjacentTrapezoidAtInsertedEdgeEnd(
                              ManageAdjacentTrapezoidAtInsertedEdgeEnd(
                                 split.heap, cur, split.couples[1][1],
                                 split.couples[1][2], top_just_inserted,
                                 TRUE),
                              cur, split.couples[Len(split.couples)][1],
                              split.couples[Len(split.couples)][2],
                              bottom_just_inserted, FALSE),
                           cur, split.couples, 1)]

\* the evaluations of insert_vertex_if_necessary of the vertex
InsertVertexEvaluations(vertex) ==
    IF vertex \in already_inserted THEN {}
    ELSE LocationEvaluations(Heap, search_tree, Pt(verts, vertex))

\* the evaluations of the coming step of the trapezoidation
ComingEvaluations ==
    IF pc = "top" THEN InsertVertexEvaluations(edges[cur].top_vertex)
    ELSE IF pc = "bottom"
    THEN InsertVertexEvaluations(edges[cur].bottom_vertex)
    ELSE IF pc = "edge"
    THEN InsertEdgeEvaluations.location \cup InsertEdgeEvaluations.walk
            \cup InsertEdgeEvaluations.branch
    ELSE {}

\* the height of the evaluation is between the heights of the two vertices
\* of its edge
WithinHeightsOfTheEdge(ev) ==
    /\ verts[edges[ev[1]].bottom_vertex][2] * ev[3] <= ev[2]
    /\ ev[2] <= verts[edges[ev[1]].top_vertex][2] * ev[3]

ListedTwice(l) == \E i, j \in DOMAIN l : i < j /\ l[i] = l[j]

\* two triangles of the list have the same three vertices
SameTriangleTwice(l) ==
    \E i, j \in DOMAIN l : i < j /\ Range(l[i]) = Range(l[j])

\* two mountains of the list have the same base
SameMountainTwice(ms) ==
    \E i, j \in DOMAIN ms : i < j /\ ms[i].base = ms[j].base

\* C29: whatever the number of times get_all_traps lists a trapezoid, the
\* mountains handed to make_triangles have distinct bases (no mountain is
\* triangulated twice) and the list triangulate_polygonal_area returns
\* holds no triangle twice.
C29_NoTriangleTwice ==
    /\ pc \in {"triangles", "done"} => ~SameMountainTwice(monotone_mountains)
    /\ pc = "done" => /\ ~ListedTwice(result.triangles)
                      /\ ~SameTriangleTwice(result.triangles)

\* a run that returned triangles, get_all_traps having listed an inside
\* trapezoid twice
C29_Witness ==
    /\ pc = "done"
    /\ ListedTwice(all_trapezoids)
    /\ ListedTwice(inside_trapezoids)
    /\ Len(result.triangles) >= 2

(***************************************************************************)
(* C30: is_inside does not depend on the trapezoid taken from the registry *)
(***************************************************************************)

\* the ways is_inside can take a trapezoid from each set of the registry
Picks == PickFunctions(traps_by_right_edge, DOMAIN traps_by_right_edge)

\* the leaf trapezoids registered under the right edge e
LeavesRegisteredUnder(e) ==
    RegGet(traps_by_right_edge, e) \cap Range(all_trapezoids)

\* with the pick, the leaf trapezoids registered under one right edge have
\* the same value of is_inside, which is not an exception
SameValueUnderOneEdge(pick) ==
    \A e \in DOMAIN traps_by_right_edge :
        \A t, u \in LeavesRegisteredUnder(e) :
            /\ IsInside(traps, pick, t, 0) \in {"in", "out"}
            /\ IsInside(traps, pick, t, 0) = IsInside(traps, pick, u, 0)

\* the two picks give every leaf trapezoid the same value of is_inside
SameValues(pick, other) ==
    \A t \in Range(all_trapezoids) :
        IsInside(traps, pick, t, 0) = IsInside(traps, other, t, 0)

\* C30: after the trapezoidation of a valid input, whichever trapezoid
\* is_inside takes from each set of the registry, the leaf trapezoids
\* registered under the same right edge have the same value of is_inside,
\* and every leaf trapezoid has the value it has when the first element of
\* each set is taken: the value depends neither on the element picked nor
\* on the order of the evaluations.
C30_IsInsideIndependentOfPick ==
    (AfterTrapezoidation /\ ValidInput)
       => \A pick \in Picks :
             /\ SameValueUnderOneEdge(pick)
             /\ SameValues(pick, FirstPick(traps_by_right_edge))

\* a registry with an edge that has three leaf trapezoids or more, some
\* inside: several picks, which agree
C30_Witness ==
    /\ AfterTrapezoidation
    /\ ValidInput
    /\ Cardinality(Picks) >= 4
    /\ \E e \in DOMAIN traps_by_right_edge :
          /\ Cardinality(LeavesRegisteredUnder(e)) >= 3
          /\ \A t \in LeavesRegisteredUnder(e) :
                IsInside(traps, FirstPick(traps_by_right_edge), t, 0) = "in"
====
